---- MODULE Spec2Model ----
\* A model of the subtitle translation pipeline of SubtitlesTools:
\* SubtitleTranslator (src/utils/subtitle_translator.py), its driver
\* translate_srt_file, the drivers inside generate_subtitles
\* (src/utils/audio_translator.py), the functions parse_srt, generate_srt
\* and format_translated_subtitle on their own, ASSConverter.srt_to_ass
\* (src/utils/ass_converter.py), embed_subtitles and get_video_info
\* (src/utils/video_info.py), the two probing methods of AudioTranslator,
\* and the transcription loop of generate_subtitles on its own.
\*
\* Text.  A Python str is a sequence of tokens.  The code inspects a text
\* only through str.strip, str.split on the literal ===NEXT=== and
\* re.sub of a leading ordinal label, so a token is one of
\*   "s"  a blank,  "n"  a line break (both are whitespace),
\*   "D"  the literal ===NEXT===,
\*   "L"  an ordinal label: the word for subtitle, digits and a colon,
\*   "I"  the sentence of the batch prompt that asks for ===NEXT===,
\*   "z"  one Chinese character (U+4E00..U+9FFF),
\*   any other string: one other character of content.
EXTENDS Integers, Sequences, FiniteSets, TLC

\* ------------------------------------------------------------- bounds
\* Largest number of texts of one direct call of translate_texts_batch.
MaxN == 3
\* Largest max_retries of a direct call.
MaxR == 2
\* Largest number of ===NEXT===-separated segments in an adapter response.
MaxSegs == 4
\* Largest number of records of a subtitle file.
MaxM == 3
\* Largest batch_size handed to a driver.
MaxB == 2
\* Largest batch_min handed to generate_subtitles.
MaxMin == 2
\* Largest number of audio chunks of a video.
MaxChunks == 2
\* Largest number of segments the transcription service returns for a chunk.
MaxGroupLen == 2
\* Largest number of blocks of a subtitle text handed to parse_srt.
MaxBlocks == 3
\* Largest number of style names handed to srt_to_ass.
MaxStyles == 2
\* Largest number of entries of subtitle_files handed to embed_subtitles.
MaxSubs == 2
\* Largest number of streams ffprobe reports for a file.
MaxStreams == 2

\* ------------------------------------------------------------- text
IsSpace(t) == t \in {"s", "n"}

RECURSIVE LStrip(_)
LStrip(s) ==
  IF s = <<>> THEN s
  ELSE IF IsSpace(Head(s)) THEN LStrip(Tail(s)) ELSE s

RECURSIVE RStrip(_)
RStrip(s) ==
  IF s = <<>> THEN s
  ELSE IF IsSpace(s[Len(s)]) THEN RStrip(SubSeq(s, 1, Len(s) - 1)) ELSE s

\* str.strip()
Strip(s) == RStrip(LStrip(s))

\* str.split('===NEXT==='): the pieces between the delimiters; a text with
\* no delimiter (the empty text too) is one piece.
RECURSIVE SplitFrom(_, _, _)
SplitFrom(s, cur, acc) ==
  IF s = <<>> THEN Append(acc, cur)
  ELSE IF Head(s) = "D" THEN SplitFrom(Tail(s), <<>>, Append(acc, cur))
  ELSE SplitFrom(Tail(s), Append(cur, Head(s)), acc)

Split(s) == SplitFrom(s, <<>>, <<>>)

\* 'D'.join(segs)
RECURSIVE Join(_)
Join(segs) ==
  IF segs = <<>> THEN <<>>
  ELSE IF Len(segs) = 1 THEN segs[1]
  ELSE segs[1] \o <<"D">> \o Join(Tail(segs))

\* re.sub of the pattern: a label at the very start, and the whitespace
\* after it, are removed.
RemoveLabel(s) ==
  IF s # <<>> /\ Head(s) = "L" THEN LStrip(Tail(s)) ELSE s

\* The body of the cleaning loop for one part: strip; when something is
\* left, remove the label and strip again.
\* (a variant that leaves the label in place)
CleanPartKeepingLabel(part) == Strip(part)

CleanPart(part) ==
  LET cleaned == Strip(part)
  IN  IF cleaned # <<>> THEN Strip(RemoveLabel(cleaned)) ELSE cleaned

RECURSIVE KeepNonEmpty(_)
KeepNonEmpty(parts) ==
  IF parts = <<>> THEN <<>>
  ELSE IF CleanPart(Head(parts)) # <<>>
       THEN <<CleanPart(Head(parts))>> \o KeepNonEmpty(Tail(parts))
       ELSE KeepNonEmpty(Tail(parts))

\* SubtitleTranslator._parse_batch_translation
parse_batch_translation(translated_text, expected_count) ==
  KeepNonEmpty(Split(translated_text))

\* ------------------------------------------------------------- inputs
\* translation_rules_dict: the supported translation types.
translation_rules_dict == {"shuangyu", "yingwen", "zhongwen"}
\* A translation type that is no key of translation_rules_dict.
Unsupported == "riwen"

\* The source texts: pairwise different, some with a leading blank or an
\* inner line break (a str the code must hand back unchanged).
SrcText(i) ==
  CASE i % 3 = 1 -> <<"s", "p", ToString(i)>>
    [] i % 3 = 2 -> <<"z", ToString(i)>>
    [] OTHER     -> <<"r", "n", ToString(i)>>

SrcTexts(n) == [i \in 1..n |-> SrcText(i)]

\* What the service may answer to a batch prompt: up to MaxSegs segments
\* joined by the delimiter, each a raw segment of one of these shapes.
RawSegs == { <<>>, <<"s", "a">>, <<"L", "s", "b", "n">>, <<"L">> }

RECURSIVE SeqsOf(_, _)
SeqsOf(S, n) ==
  IF n = 0 THEN { <<>> }
  ELSE LET shorter == SeqsOf(S, n - 1)
       IN  shorter \cup { Append(q, x) : q \in { r \in shorter : Len(r) = n - 1 }, x \in S }

BatchResponses == { Join(segs) : segs \in SeqsOf(RawSegs, MaxSegs) \ { <<>> } }

\* What the service may answer to a single-text prompt.
SingleResponses == { <<"s", "u", "n">>, <<"v">> }

\* An outcome of openai_api.text_to_text: it raises, or returns ai_text.
Raised == [ok |-> FALSE, ai_text |-> <<>>]
Returned(t) == [ok |-> TRUE, ai_text |-> t]

\* Under a driver, which calls the translator again and again, the answers
\* are drawn from fewer texts: 1..MaxSegs segments of alternating shapes to a
\* batch prompt, one text to a single-text prompt.
DriverSeg(j) == IF j % 2 = 1 THEN <<"s", "a">> ELSE <<"L", "s", "b", "n">>
DriverBatchResponses == { Join([j \in 1..k |-> DriverSeg(j)]) : k \in 1..MaxSegs }
DriverSingleResponses == { <<"s", "u", "n">> }

BatchOutcomes(driven) ==
  { Raised } \cup { Returned(t) : t \in IF driven THEN DriverBatchResponses
                                        ELSE BatchResponses }
SingleOutcomes(driven) ==
  { Raised } \cup { Returned(t) : t \in IF driven THEN DriverSingleResponses
                                        ELSE SingleResponses }

Range(f) == { f[x] : x \in DOMAIN f }

\* ------------------------------------------------------------- state
VARIABLES
  \* translate_texts_batch / _translate_one_by_one: arguments and locals
  texts,               \* the texts of the current call
  translation_type,
  max_retries,
  pc,                  \* "idle", "entry", "batch", "one_by_one", "returned", "raised"
  attempt,             \* the loop variable of the batch retry loop
  translated_text,     \* result['ai_text'] while it is live: the fallback never
                       \* reads it, and there the model forgets it
  split_count,         \* len(parts) in _parse_batch_translation
  translated_parts,    \* what _parse_batch_translation returned
  item,                \* the number of texts _translate_one_by_one has finished
  item_attempt,        \* the loop variable of translate_single_text's retry loop
  translated_results,  \* the list _translate_one_by_one builds
  ret,                 \* the list the call returned
  \* what the adapter saw (history)
  delim_calls,         \* calls whose prompt asks for ===NEXT===
  plain_calls,         \* calls whose prompt does not
  batch_errors,        \* delimiter-prompt calls that raised
  got_response,        \* a delimiter-prompt call returned a response
  item_log             \* per finished text: how its translate_single_text ended

tvars == << texts, translation_type, max_retries, pc, attempt, translated_text,
            split_count, translated_parts, item, item_attempt, translated_results, ret,
            delim_calls, plain_calls, batch_errors, got_response, item_log >>

\* translate_srt_file and generate_subtitles: arguments and locals
VARIABLES
  opc,                  \* where the driver is: "direct" (no driver), "start",
                        \* "loop", "written", "raised"
  file_exists,          \* os.path.exists(srt_file_path)
  subtitles,            \* the parsed records
  batch_size,
  i_batch,              \* the loop variable i of the batch loop
  batch_subtitles,      \* the slice being translated
  translated_subtitles, \* the records built for the output
  error,                \* the exception the driver raised, or "none"
  handed,               \* per call made so far: the slice handed to the translator
  \* generate_subtitles only
  mode,
  batch_min,
  embedded_subs,        \* whether detect_embedded_subtitles found a subtitle stream
  translated_texts,     \* embedded mode: the translations collected so far
  audio_chunks,         \* the chunk_index of every extracted chunk
  audio_segments_groups,
  group,                \* the number of groups the translation loop has passed
  translated_segments_groups,
  temp_srt,             \* the extracted temporary SRT file exists
  chunk_files,          \* the extracted chunk files exist
  output,               \* the records written to the output file
  result                \* what the driver returned, or "running"

gvars == << mode, batch_min, embedded_subs, translated_texts, audio_chunks,
            audio_segments_groups, group, translated_segments_groups, temp_srt, chunk_files, output, result >>

ovars == << opc, file_exists, subtitles, batch_size, i_batch, batch_subtitles,
            translated_subtitles, error, handed, gvars >>

\* parse_srt and generate_srt applied to a text on their own
VARIABLES
  ppc,                  \* "none", or how far the functions have been applied
  srt_blocks,           \* the blocks srt_content was put together from
  srt_content,          \* the text handed to parse_srt
  parsed,               \* parse_srt(srt_content)
  serialized,           \* generate_srt(parsed)
  reparsed              \* parse_srt(serialized)

svars == << srt_blocks, srt_content, parsed, serialized, reparsed >>

\* format_translated_subtitle applied on its own
VARIABLES
  fmt_original,         \* the argument original_text
  fmt_translated,       \* the argument translated_text
  formatted,            \* the text returned
  formatted_again       \* the text returned for the returned text

fvars == << fmt_original, fmt_translated, formatted, formatted_again >>

\* ASSConverter.srt_to_ass
VARIABLES
  style_names,          \* the argument style_names
  ass_blocks,           \* the blocks ass_text was put together from
  ass_text,             \* the text of the file at srt_path
  ass_subtitles,        \* the local subtitles: what _parse_srt_file returned
  ass_done,             \* the number of style names the loop has passed
  ass_files,            \* per output path: the file there
  output_paths,         \* the list returned
  ass_error             \* the exception raised, or "none"

avars == << style_names, ass_blocks, ass_text, ass_subtitles, ass_done, ass_files,
            output_paths, ass_error >>

\* embed_subtitles
VARIABLES
  video_path,           \* the argument video_path: whether the file exists, its extension
  subtitle_files,       \* the argument subtitle_files
  output_path,          \* the argument output_path
  preserve_ass_styles,  \* the argument preserve_ass_styles
  ffmpeg_exists,        \* whether ffmpeg.exe stands at ffmpeg_path
  cmd,                  \* the command handed to subprocess.run
  ffmpeg_runs,          \* the number of calls of subprocess.run
  ffmpeg_exit,          \* how the call of subprocess.run ended
  embed_result          \* what embed_subtitles returned

evars == << video_path, subtitle_files, output_path, preserve_ass_styles, ffmpeg_exists,
            cmd, ffmpeg_runs, ffmpeg_exit, embed_result >>

\* media probing: get_video_info, detect_embedded_subtitles, get_video_duration
VARIABLES
  probe_fn,             \* the function called
  probe_file_exists,    \* whether the file at video_path exists
  ffprobe_exists,       \* whether the ffprobe binary can be found
  ffprobe,              \* how the run of ffprobe ends
  probe_result          \* what the function returned

qvars == << probe_fn, probe_file_exists, ffprobe_exists, ffprobe, probe_result >>

\* the transcription loop of generate_subtitles on its own
VARIABLES
  chunk_indices,        \* chunk_index of each entry of audio_chunks
  transcriptions,       \* per chunk passed: what the transcription service did
  segments_groups       \* audio_segments_groups

hvars == << chunk_indices, transcriptions, segments_groups >>

mvars == << evars, qvars, hvars >>

pvars == << ppc, svars, fvars, avars, mvars >>

vars == << tvars, ovars, pvars >>

\* ------------------------------------------------------------- prompts
RECURSIVE NumberedTexts(_)
NumberedTexts(ts) ==
  IF ts = <<>> THEN <<>>
  ELSE <<"L">> \o Head(ts) \o <<"n", "n">> \o NumberedTexts(Tail(ts))

\* user_prompt of translate_texts_batch: both branches on translation_type
\* ask for ===NEXT=== between the results, then list the numbered texts.
batch_user_prompt(ts) == <<"I">> \o NumberedTexts(ts)

\* The user message of translate_single_text is the text itself.
single_user_prompt(text) == text

\* openai_api.text_to_text is called with this user prompt.
text_to_text_called(prompt) ==
  IF "I" \in Range(prompt)
  THEN delim_calls' = delim_calls + 1 /\ UNCHANGED plain_calls
  ELSE plain_calls' = plain_calls + 1 /\ UNCHANGED delim_calls

\* ------------------------------------------------------------- translate_single_text
\* (a variant that allows one attempt too many)
LastSingleAttemptLate(a, R) == a = R

\* attempt == max_retries - 1: the retry loop of translate_single_text
\* gives up and the text itself is returned.
LastSingleAttempt(a, R) == a = R - 1

\* What translate_single_text returns once an attempt has ended it.
single_result(o, text) == IF o.ok THEN Strip(o.ai_text) ELSE text

\* ------------------------------------------------------------- _translate_one_by_one
\* A call of the translator starts: its arguments are bound and nothing has
\* been sent or received yet.
CallFrame(ts, type, R) ==
  /\ texts' = ts
  /\ translation_type' = type
  /\ max_retries' = R
  /\ attempt' = 0
  /\ translated_text' = <<>>
  /\ split_count' = 0
  /\ translated_parts' = <<>>
  /\ delim_calls' = 0
  /\ plain_calls' = 0
  /\ batch_errors' = 0
  /\ got_response' = FALSE
  /\ item_log' = <<>>

\* The call of _translate_one_by_one(ts, R): nothing to do for no texts; the
\* first translate_single_text raises KeyError for an unsupported type.
StartOneByOne(ts, type) ==
  /\ item' = 0
  /\ item_attempt' = 0
  /\ translated_results' = <<>>
  /\ IF ts = <<>> THEN pc' = "returned" /\ ret' = <<>>
     ELSE IF type \notin translation_rules_dict THEN pc' = "raised" /\ ret' = <<>>
     ELSE pc' = "one_by_one" /\ ret' = <<>>

\* The call _translate_one_by_one(texts=ts, translation_type=type,
\* max_retries=R) made by a driver.
EnterOneByOne(ts, type, R) ==
  /\ CallFrame(ts, type, R)
  /\ StartOneByOne(ts, type)

\* translate_single_text has ended for the current text with value v.
FinishItem(v, entry) ==
  /\ translated_results' = Append(translated_results, v)
  /\ item_log' = Append(item_log, entry)
  /\ item' = item + 1
  /\ item_attempt' = 0
  /\ IF item + 1 = Len(texts)
     THEN pc' = "returned" /\ ret' = Append(translated_results, v)
     ELSE UNCHANGED << pc, ret >>

\* One attempt of translate_single_text for the current text (with
\* max_retries = 0 the loop body never runs and the text comes back).
SingleStep ==
  /\ pc = "one_by_one"
  /\ LET text == texts[item + 1]
     IN  IF max_retries = 0
         THEN /\ FinishItem(text, [ok |-> FALSE, ai_text |-> <<>>, calls |-> 0])
              /\ UNCHANGED << delim_calls, plain_calls >>
         ELSE \E o \in SingleOutcomes(opc # "direct") :
                /\ text_to_text_called(single_user_prompt(text))
                /\ IF o.ok \/ LastSingleAttempt(item_attempt, max_retries)
                   THEN FinishItem(single_result(o, text),
                                   [ok |-> o.ok, ai_text |-> o.ai_text,
                                    calls |-> item_attempt + 1])
                   ELSE /\ item_attempt' = item_attempt + 1
                        /\ UNCHANGED << translated_results, item_log, item, pc, ret >>
  /\ UNCHANGED << texts, translation_type, max_retries, attempt, translated_text,
                  split_count, translated_parts, batch_errors, got_response >>
  /\ UNCHANGED ovars
  /\ UNCHANGED pvars

\* ------------------------------------------------------------- translate_texts_batch
\* (a variant that sends a single text down the batch path)
UsesOneByOneOnlyIfEmpty(ts) == Len(ts) < 1

\* len(texts) <= 1: the call goes straight to _translate_one_by_one.
UsesOneByOne(ts) == Len(ts) <= 1

\* (a variant that allows one batch attempt too many)
LastBatchAttemptLate(a, R) == a = R

\* attempt == max_retries - 1: the batch retry loop gives up.
LastBatchAttempt(a, R) == a = R - 1

\* (a variant that tolerates two missing segments)
AcceptsTwoMissing(parts, ts) == Len(parts) >= Len(ts) - 2

\* (a variant that rejects a response with segments to spare)
AcceptsUpToN(parts, ts) == Len(parts) >= Len(ts) - 1 /\ Len(parts) <= Len(ts)

\* len(translated_parts) >= len(texts) - 1
Accepts(parts, ts) == Len(parts) >= Len(ts) - 1

\* (a variant that pads with the text before the missing one)
RECURSIVE PadWithPrevious(_, _)
PadWithPrevious(parts, ts) ==
  IF Len(parts) < Len(ts) THEN PadWithPrevious(Append(parts, ts[Len(parts)]), ts)
  ELSE parts

\* The while loop that appends texts[len(translated_parts)], then [:len(texts)].
RECURSIVE PadWith(_, _)
PadWith(parts, ts) ==
  IF Len(parts) < Len(ts) THEN PadWith(Append(parts, ts[Len(parts) + 1]), ts)
  ELSE parts

\* (a variant that does not cut the list to len(texts))
PadWithoutCut(parts, ts) == PadWith(parts, ts)

PadAndCut(parts, ts) == SubSeq(PadWith(parts, ts), 1, Len(ts))

\* The call translate_texts_batch(texts=ts, translation_type=type,
\* max_retries=R) up to its retry loop.
EnterBatch(ts, type, R) ==
  /\ CallFrame(ts, type, R)
  /\ IF ts # <<>> /\ UsesOneByOne(ts) THEN StartOneByOne(ts, type)
     ELSE /\ item' = 0
          /\ item_attempt' = 0
          /\ translated_results' = <<>>
          /\ IF ts = <<>> THEN pc' = "returned" /\ ret' = <<>>
             ELSE IF type \notin translation_rules_dict
             THEN pc' = "raised" /\ ret' = <<>>
             ELSE IF R = 0 THEN pc' = "returned" /\ ret' = ts
             ELSE pc' = "batch" /\ ret' = <<>>

\* One pass of the retry loop: the adapter call and what follows it.
BatchStep ==
  /\ pc = "batch"
  /\ \E o \in BatchOutcomes(opc # "direct") :
       /\ text_to_text_called(batch_user_prompt(texts))
       /\ IF o.ok
          THEN LET parts == parse_batch_translation(o.ai_text, Len(texts))
               IN  /\ got_response' = TRUE
                   /\ translated_parts' = parts
                   /\ split_count' = Len(Split(o.ai_text))
                   /\ UNCHANGED << attempt, batch_errors >>
                   /\ IF Accepts(parts, texts)
                      THEN /\ translated_text' = o.ai_text
                           /\ ret' = PadAndCut(parts, texts)
                           /\ pc' = "returned"
                           /\ UNCHANGED << item, item_attempt, translated_results >>
                      ELSE /\ translated_text' = <<>>
                           /\ StartOneByOne(texts, translation_type)
          ELSE /\ batch_errors' = batch_errors + 1
               /\ UNCHANGED << got_response, translated_parts, translated_text,
                               split_count >>
               /\ IF LastBatchAttempt(attempt, max_retries)
                  THEN StartOneByOne(texts, translation_type) /\ UNCHANGED attempt
                  ELSE /\ attempt' = attempt + 1
                       /\ UNCHANGED << item, item_attempt, translated_results, pc, ret >>
  /\ UNCHANGED << texts, translation_type, max_retries, item_log >>
  /\ UNCHANGED ovars
  /\ UNCHANGED pvars

\* No call is in progress: the locals of the translator hold nothing.
Idle ==
  /\ texts = <<>>
  /\ max_retries = 0
  /\ pc = "idle"
  /\ attempt = 0
  /\ translated_text = <<>>
  /\ split_count = 0
  /\ translated_parts = <<>>
  /\ item = 0
  /\ item_attempt = 0
  /\ translated_results = <<>>
  /\ ret = <<>>
  /\ delim_calls = 0
  /\ plain_calls = 0
  /\ batch_errors = 0
  /\ got_response = FALSE
  /\ item_log = <<>>

\* The call has returned to the driver: its locals are gone.
Forget ==
  /\ texts' = <<>>
  /\ max_retries' = 0
  /\ pc' = "idle"
  /\ attempt' = 0
  /\ translated_text' = <<>>
  /\ split_count' = 0
  /\ translated_parts' = <<>>
  /\ item' = 0
  /\ item_attempt' = 0
  /\ translated_results' = <<>>
  /\ ret' = <<>>
  /\ delim_calls' = 0
  /\ plain_calls' = 0
  /\ batch_errors' = 0
  /\ got_response' = FALSE
  /\ item_log' = <<>>
  /\ UNCHANGED translation_type

\* ------------------------------------------------------------- a direct call
\* parse_srt and generate_srt are not applied on their own.
NoParse ==
  /\ srt_blocks = <<>>
  /\ srt_content = <<>>
  /\ parsed = <<>>
  /\ serialized = <<>>
  /\ reparsed = <<>>

\* format_translated_subtitle is not applied on its own.
NoFormat ==
  /\ fmt_original = <<>>
  /\ fmt_translated = <<>>
  /\ formatted = <<>>
  /\ formatted_again = <<>>

\* srt_to_ass is not running.
NoAss ==
  /\ style_names = <<>>
  /\ ass_blocks = <<>>
  /\ ass_text = <<>>
  /\ ass_subtitles = <<>>
  /\ ass_done = 0
  /\ ass_files = <<>>
  /\ output_paths = <<>>
  /\ ass_error = "none"

\* What embed_subtitles returns is a dict; before the return there is none.
NoResult == [kind |-> "none", success |-> FALSE, error |-> "none", subtitle_codec |-> ""]

NoCmd == [inputs |-> 0, codec |-> "", disposition |-> FALSE]

NoExit == [kind |-> "none", returncode |-> 0, created |-> FALSE]

\* embed_subtitles is not running.
NoEmbed ==
  /\ video_path = [exists |-> FALSE, ext |-> ""]
  /\ subtitle_files = <<>>
  /\ output_path = ""
  /\ preserve_ass_styles = FALSE
  /\ ffmpeg_exists = FALSE
  /\ cmd = NoCmd
  /\ ffmpeg_runs = 0
  /\ ffmpeg_exit = NoExit
  /\ embed_result = NoResult

NoStdout == [kind |-> "empty", streams |-> <<>>, duration |-> "absent"]

NoRun == [kind |-> "none", returncode |-> 0, stdout |-> NoStdout]

NoProbeResult == [kind |-> "none", error |-> FALSE, streams |-> <<>>]

\* No probing function is running.
NoProbe ==
  /\ probe_fn = "none"
  /\ probe_file_exists = FALSE
  /\ ffprobe_exists = FALSE
  /\ ffprobe = NoRun
  /\ probe_result = NoProbeResult

\* The transcription loop is not running on its own.
NoTranscribe ==
  /\ chunk_indices = <<>>
  /\ transcriptions = <<>>
  /\ segments_groups = <<>>

NoMedia == NoEmbed /\ NoProbe /\ NoTranscribe

\* No function is applied on its own.
NoPure == ppc = "none" /\ NoParse /\ NoFormat /\ NoAss /\ NoMedia

\* generate_subtitles is not running.
NoGenerate ==
  /\ mode = "none"
  /\ batch_min = 0
  /\ embedded_subs = FALSE
  /\ translated_texts = <<>>
  /\ audio_chunks = <<>>
  /\ audio_segments_groups = <<>>
  /\ group = 0
  /\ translated_segments_groups = <<>>
  /\ temp_srt = FALSE
  /\ chunk_files = FALSE
  /\ output = <<>>
  /\ result = "running"

NoDriver ==
  /\ opc = "direct"
  /\ file_exists = TRUE
  /\ subtitles = <<>>
  /\ batch_size = 0
  /\ i_batch = 0
  /\ batch_subtitles = <<>>
  /\ translated_subtitles = <<>>
  /\ error = "none"
  /\ handed = <<>>
  /\ NoGenerate

Init ==
  /\ \E n \in 0..MaxN : texts = SrcTexts(n)
  /\ translation_type \in translation_rules_dict \cup { Unsupported }
  /\ max_retries \in 0..MaxR
  /\ pc = "entry"
  /\ attempt = 0
  /\ translated_text = <<>>
  /\ split_count = 0
  /\ translated_parts = <<>>
  /\ item = 0
  /\ item_attempt = 0
  /\ translated_results = <<>>
  /\ ret = <<>>
  /\ delim_calls = 0
  /\ plain_calls = 0
  /\ batch_errors = 0
  /\ got_response = FALSE
  /\ item_log = <<>>
  /\ NoDriver
  /\ NoPure

Call ==
  /\ pc = "entry"
  /\ EnterBatch(texts, translation_type, max_retries)
  /\ UNCHANGED ovars
  /\ UNCHANGED pvars

Next == Call \/ BatchStep \/ SingleStep

Spec == Init /\ [][Next]_vars

\* A direct call whose adapter answers are the fewer texts of the drivers.
InitFew ==
  /\ \E n \in 0..MaxN : texts = SrcTexts(n)
  /\ translation_type \in translation_rules_dict \cup { Unsupported }
  /\ max_retries \in 0..MaxR
  /\ pc = "entry"
  /\ attempt = 0
  /\ translated_text = <<>>
  /\ split_count = 0
  /\ translated_parts = <<>>
  /\ item = 0
  /\ item_attempt = 0
  /\ translated_results = <<>>
  /\ ret = <<>>
  /\ delim_calls = 0
  /\ plain_calls = 0
  /\ batch_errors = 0
  /\ got_response = FALSE
  /\ item_log = <<>>
  /\ opc = "direct_few"
  /\ file_exists = TRUE
  /\ subtitles = <<>>
  /\ batch_size = 0
  /\ i_batch = 0
  /\ batch_subtitles = <<>>
  /\ translated_subtitles = <<>>
  /\ error = "none"
  /\ handed = <<>>
  /\ NoGenerate
  /\ NoPure

\* The call is synchronous and single-threaded: as long as a statement is
\* left to run, one runs.
FairSpec == InitFew /\ [][Next]_vars /\ WF_vars(Next)

\* ------------------------------------------------------------- format_translated_subtitle
IsChineseChar(t) == t = "z"

\* SubtitleTranslator._is_chinese
is_chinese(text) ==
  LET chinese_chars == Cardinality({ k \in 1..Len(text) : IsChineseChar(text[k]) })
      total_chars == Cardinality({ k \in 1..Len(text) : ~IsSpace(text[k]) })
  IN  IF total_chars > 0 THEN 10 * chinese_chars > 3 * total_chars ELSE FALSE

\* (a variant that counts the line breaks, not the lines)
LineBreakCount(text) == Cardinality({ k \in 1..Len(text) : text[k] = "n" })

\* len(translated_text.split('\n'))
LineCount(text) == 1 + Cardinality({ k \in 1..Len(text) : text[k] = "n" })

\* (a variant that puts a Chinese original above its translation)
format_original_first(original_text, translated, type) ==
  IF type = "shuangyu"
  THEN IF LineCount(translated) >= 2 THEN translated
       ELSE IF is_chinese(original_text)
            THEN original_text \o <<"n">> \o translated
            ELSE translated \o <<"n">> \o original_text
  ELSE translated

\* SubtitleTranslator.format_translated_subtitle
format_translated_subtitle(original_text, translated, type) ==
  IF type = "shuangyu"
  THEN IF LineCount(translated) >= 2 THEN translated
       ELSE IF is_chinese(original_text)
            THEN translated \o <<"n">> \o original_text
            ELSE translated \o <<"n">> \o original_text
  ELSE translated

\* ------------------------------------------------------------- translate_srt_file
\* max_retries of translate_texts_batch when the caller gives none.
DefaultMaxRetries == 3

\* The k-th record of the subtitle file: index values need not be contiguous.
SrcRecord(k) ==
  [index |-> 10 * k + 1, timeline |-> <<"T", ToString(k)>>, text |-> SrcText(k)]

SrcRecords(m) == [k \in 1..m |-> SrcRecord(k)]

\* (a variant whose slice misses its last record)
SliceOfShort(seq, i, n) ==
  SubSeq(seq, i + 1, IF i + n - 1 < Len(seq) THEN i + n - 1 ELSE Len(seq))

\* seq[i:i + n]
SliceOf(seq, i, n) ==
  SubSeq(seq, i + 1, IF i + n < Len(seq) THEN i + n ELSE Len(seq))

TextsOf(records) == [k \in 1..Len(records) |-> records[k].text]

InitSrt ==
  /\ Idle
  /\ translation_type \in translation_rules_dict \cup { Unsupported }
  /\ opc = "start"
  /\ file_exists \in BOOLEAN
  /\ \E m \in 0..MaxM : subtitles = SrcRecords(m)
  /\ batch_size \in 1..MaxB
  /\ i_batch = 0
  /\ batch_subtitles = <<>>
  /\ translated_subtitles = <<>>
  /\ error = "none"
  /\ handed = <<>>
  /\ NoGenerate
  /\ NoPure

\* (a variant that does not test the parse result)
SrtStartUnchecked ==
  /\ opc = "start"
  /\ IF translation_type \notin translation_rules_dict
     THEN opc' = "raised" /\ error' = "ValueError"
     ELSE IF ~file_exists
     THEN opc' = "raised" /\ error' = "FileNotFoundError"
     ELSE opc' = "loop" /\ error' = "none"
  /\ UNCHANGED << file_exists, subtitles, batch_size, i_batch, batch_subtitles,
                  translated_subtitles, handed, gvars >>
  /\ UNCHANGED tvars
  /\ UNCHANGED pvars

\* The checks before the batch loop: the translation type, the file, the
\* parse result.
SrtStart ==
  /\ opc = "start"
  /\ IF translation_type \notin translation_rules_dict
     THEN opc' = "raised" /\ error' = "ValueError"
     ELSE IF ~file_exists
     THEN opc' = "raised" /\ error' = "FileNotFoundError"
     ELSE IF subtitles = <<>>
     THEN opc' = "raised" /\ error' = "ValueError"
     ELSE opc' = "loop" /\ error' = "none"
  /\ UNCHANGED << file_exists, subtitles, batch_size, i_batch, batch_subtitles,
                  translated_subtitles, handed, gvars >>
  /\ UNCHANGED tvars
  /\ UNCHANGED pvars

\* One pass of the batch loop up to the call of translate_texts_batch.
SrtCall ==
  /\ opc = "loop" /\ pc = "idle"
  /\ i_batch < Len(subtitles)
  /\ LET slice == SliceOf(subtitles, i_batch, batch_size)
     IN  /\ batch_subtitles' = slice
         /\ handed' = Append(handed, [start |-> i_batch, texts |-> TextsOf(slice),
                                      to |-> "translate_texts_batch"])
         /\ EnterBatch(TextsOf(slice), translation_type, DefaultMaxRetries)
  /\ UNCHANGED << opc, file_exists, subtitles, batch_size, i_batch,
                  translated_subtitles, error, gvars >>
  /\ UNCHANGED pvars

\* for j, subtitle in enumerate(batch_subtitles): the formatted record.
FormattedRecords(batch, translated, type) ==
  [ j \in 1..Len(batch) |->
      [index |-> batch[j].index,
       timeline |-> batch[j].timeline,
       text |-> format_translated_subtitle(
                  batch[j].text,
                  IF j <= Len(translated) THEN translated[j]
                  ELSE batch[j].text,
                  type)] ]

\* The rest of the pass: the records of the batch are formatted and appended;
\* after the last batch the output file is written.
SrtCollect ==
  /\ opc = "loop" /\ pc = "returned"
  /\ LET all == translated_subtitles
                \o FormattedRecords(batch_subtitles, ret, translation_type)
         last == ~(i_batch + batch_size < Len(subtitles))
     IN  /\ translated_subtitles' = all
         /\ opc' = IF last THEN "written" ELSE "loop"
         /\ output' = IF last THEN all ELSE output
         /\ result' = IF last THEN "output_path" ELSE result
  /\ i_batch' = i_batch + batch_size
  /\ batch_subtitles' = <<>>
  /\ Forget
  /\ UNCHANGED << file_exists, subtitles, batch_size, error, handed >>
  /\ UNCHANGED << mode, batch_min, embedded_subs, translated_texts, audio_chunks,
                  audio_segments_groups, group, translated_segments_groups,
                  temp_srt, chunk_files >>
  /\ UNCHANGED pvars

NextSrt == SrtStart \/ SrtCall \/ SrtCollect \/ BatchStep \/ SingleStep

SpecSrt == InitSrt /\ [][NextSrt]_vars

\* ------------------------------------------------------------- generate_subtitles
GenModes == {"embedded", "auto", "audio", "other"}

\* max_retries=3 of the drivers' calls of _translate_one_by_one.
OneByOneRetries == 3

\* chunk_duration=180 (seconds); times are kept in milliseconds.
ChunkDuration == 180

\* What the transcription service may return for a chunk: it raises, or
\* returns up to MaxGroupLen segments with times relative to the chunk; a
\* segment's text is speech with whitespace around it, or blank (the second
\* segment of every other chunk).
ServiceSegment(c, j) ==
  [start |-> (j - 1) * 2500,
   end   |-> (j - 1) * 2500 + 1750,
   text  |-> IF c % 2 = 1 /\ j = 2 THEN <<"s">>
             ELSE <<"s", "w", ToString(c), ToString(j), "s">>]

ServiceResponses(c) ==
  { [j \in 1..k |-> ServiceSegment(c, j)] : k \in 0..MaxGroupLen }

TranscriptionOutcomes(c) ==
  { [ok |-> FALSE, segments |-> <<>>] }
    \cup { [ok |-> TRUE, segments |-> r] : r \in ServiceResponses(c) }

\* AudioTranslator.transcribe_audio_chunk: the offset of the chunk is added
\* to both times, blank texts are left out, an error gives no segment.
RECURSIVE OffsetSegments(_, _)
OffsetSegments(segments, chunk_start_time) ==
  IF segments = <<>> THEN <<>>
  ELSE LET seg == Head(segments)
           text == Strip(seg.text)
           rest == OffsetSegments(Tail(segments), chunk_start_time)
       IN  IF text # <<>>
           THEN << [start_time |-> chunk_start_time + seg.start,
                    end_time |-> chunk_start_time + seg.end,
                    text |-> text] >> \o rest
           ELSE rest

\* (a variant that leaves the times relative to the chunk)
transcribe_without_offset(o, chunk_start_time) ==
  IF o.ok THEN OffsetSegments(o.segments, 0) ELSE <<>>

transcribe_audio_chunk(o, chunk_start_time) ==
  IF o.ok THEN OffsetSegments(o.segments, chunk_start_time) ELSE <<>>

\* The members of a set of numbers in increasing order.
RECURSIVE Sorted(_)
Sorted(S) ==
  IF S = {} THEN <<>>
  ELSE LET least == CHOOSE x \in S : \A y \in S : x <= y
       IN  <<least>> \o Sorted(S \ {least})

\* AudioTranslator.seconds_to_srt_time, on milliseconds
seconds_to_srt_time(ms) ==
  << ms \div 3600000, (ms % 3600000) \div 60000, (ms % 60000) \div 1000, ms % 1000 >>

\* (a variant that numbers the records from 0)
segments_to_srt_format_from_zero(segments) ==
  [ k \in 1..Len(segments) |->
      [index |-> k - 1,
       timeline |-> << seconds_to_srt_time(segments[k].start_time), "-->",
                       seconds_to_srt_time(segments[k].end_time) >>,
       text |-> segments[k].text] ]

\* AudioTranslator.segments_to_srt_format
segments_to_srt_format(segments) ==
  [ k \in 1..Len(segments) |->
      [index |-> k,
       timeline |-> << seconds_to_srt_time(segments[k].start_time), "-->",
                       seconds_to_srt_time(segments[k].end_time) >>,
       text |-> segments[k].text] ]

\* all_translated_segments: the groups one after another.
RECURSIVE Flatten(_)
Flatten(groups) ==
  IF groups = <<>> THEN <<>> ELSE Head(groups) \o Flatten(Tail(groups))

InitGen ==
  /\ Idle
  /\ translation_type \in translation_rules_dict \cup { Unsupported }
  /\ opc = "start"
  /\ file_exists = TRUE
  /\ subtitles = <<>>
  /\ batch_size \in 1..MaxB
  /\ i_batch = 0
  /\ batch_subtitles = <<>>
  /\ translated_subtitles = <<>>
  /\ error = "none"
  /\ handed = <<>>
  /\ mode \in GenModes
  /\ batch_min \in 1..MaxMin
  /\ embedded_subs = FALSE
  /\ translated_texts = <<>>
  /\ audio_chunks = <<>>
  /\ audio_segments_groups = <<>>
  /\ group = 0
  /\ translated_segments_groups = <<>>
  /\ temp_srt = FALSE
  /\ chunk_files = FALSE
  /\ output = <<>>
  /\ result = "running"
  /\ NoPure

\* The driver returns v.
GenReturn(v) == opc' = "done" /\ result' = v

\* The checks of the video file and of ffmpeg, then the choice of the mode.
GenStart ==
  /\ opc = "start"
  /\ \E video_exists, ffmpeg_ok \in BOOLEAN :
       IF ~video_exists \/ ~ffmpeg_ok THEN GenReturn("None")
       ELSE IF mode = "embedded" THEN opc' = "embedded_prepare" /\ UNCHANGED result
       ELSE IF mode = "auto" THEN opc' = "auto_detect" /\ UNCHANGED result
       ELSE IF mode = "audio" THEN opc' = "audio_prepare" /\ UNCHANGED result
       ELSE GenReturn("error_dict")
  /\ UNCHANGED << file_exists, subtitles, batch_size, i_batch, batch_subtitles,
                  translated_subtitles, error, handed, mode, batch_min, embedded_subs,
                  translated_texts, audio_chunks, audio_segments_groups, group,
                  translated_segments_groups, temp_srt, chunk_files, output >>
  /\ UNCHANGED tvars
  /\ UNCHANGED pvars

\* Embedded mode: detection, extraction and parsing of the embedded track.
GenEmbeddedPrepare ==
  /\ opc = "embedded_prepare"
  /\ \E detected, extracted \in BOOLEAN, m \in 0..MaxM :
       /\ embedded_subs' = detected
       /\ IF ~detected
          THEN GenReturn("no_embedded_message") /\ UNCHANGED << subtitles, temp_srt >>
          ELSE IF ~extracted
          THEN GenReturn("extract_failed_message") /\ UNCHANGED << subtitles, temp_srt >>
          ELSE IF m = 0
          THEN GenReturn("parse_failed_message") /\ temp_srt' = FALSE /\ UNCHANGED subtitles
          ELSE /\ opc' = "embedded_loop"
               /\ subtitles' = SrcRecords(m)
               /\ temp_srt' = TRUE
               /\ UNCHANGED result
  /\ UNCHANGED << file_exists, batch_size, i_batch, batch_subtitles,
                  translated_subtitles, error, handed, mode, batch_min,
                  translated_texts, audio_chunks, audio_segments_groups, group,
                  translated_segments_groups, chunk_files, output >>
  /\ UNCHANGED tvars
  /\ UNCHANGED pvars

\* if len(batch_texts) >= batch_min: translate_texts_batch, else
\* _translate_one_by_one.
CallTranslator(ts, at) ==
  IF Len(ts) >= batch_min
  THEN /\ EnterBatch(ts, translation_type, DefaultMaxRetries)
       /\ handed' = Append(handed, [start |-> at, texts |-> ts,
                                    to |-> "translate_texts_batch"])
  ELSE /\ EnterOneByOne(ts, translation_type, OneByOneRetries)
       /\ handed' = Append(handed, [start |-> at, texts |-> ts,
                                    to |-> "_translate_one_by_one"])

\* Embedded mode: one pass of the batch loop up to the call of the translator.
GenEmbeddedCall ==
  /\ opc = "embedded_loop" /\ pc = "idle"
  /\ i_batch < Len(subtitles)
  /\ CallTranslator(SliceOf(TextsOf(subtitles), i_batch, batch_size), i_batch)
  /\ UNCHANGED << opc, file_exists, subtitles, batch_size, i_batch, batch_subtitles,
                  translated_subtitles, error, gvars >>
  /\ UNCHANGED pvars

\* subtitle['text'] = formatted_text for every i < len(translated_texts)
FormatInPlace(records, translated, type) ==
  [ k \in 1..Len(records) |->
      IF k <= Len(translated)
      THEN [records[k] EXCEPT
              !.text = format_translated_subtitle(records[k].text, translated[k], type)]
      ELSE records[k] ]

\* Embedded mode: the rest of the pass; after the last batch the records are
\* formatted, the temporary file is removed and the output file is written.
GenEmbeddedCollect ==
  /\ opc = "embedded_loop" /\ pc = "returned"
  /\ LET all == translated_texts \o ret
         last == ~(i_batch + batch_size < Len(subtitles))
     IN  /\ translated_texts' = all
         /\ i_batch' = i_batch + batch_size
         /\ IF last
            THEN /\ subtitles' = FormatInPlace(subtitles, all, translation_type)
                 /\ output' = FormatInPlace(subtitles, all, translation_type)
                 /\ temp_srt' = FALSE
                 /\ GenReturn("output_file")
            ELSE UNCHANGED << subtitles, output, temp_srt, opc, result >>
  /\ Forget
  /\ UNCHANGED << file_exists, batch_size, batch_subtitles, translated_subtitles,
                  error, handed, mode, batch_min, embedded_subs, audio_chunks,
                  audio_segments_groups, group, translated_segments_groups,
                  chunk_files >>
  /\ UNCHANGED pvars

\* Auto mode: with an embedded track the function calls itself without
\* text_models and audio_models, which raises TypeError inside the try.
GenAutoDetect ==
  /\ opc = "auto_detect"
  /\ \E detected \in BOOLEAN :
       /\ embedded_subs' = detected
       /\ IF detected THEN GenReturn("None") /\ error' = "TypeError"
          ELSE opc' = "audio_prepare" /\ UNCHANGED << result, error >>
  /\ UNCHANGED << file_exists, subtitles, batch_size, i_batch, batch_subtitles,
                  translated_subtitles, handed, mode, batch_min,
                  translated_texts, audio_chunks, audio_segments_groups, group,
                  translated_segments_groups, temp_srt, chunk_files, output >>
  /\ UNCHANGED tvars
  /\ UNCHANGED pvars

Total(groups) == Len(Flatten(groups))

\* Audio modes: extraction of the chunks and transcription of each.
GenAudioPrepare ==
  /\ opc = "audio_prepare"
  /\ \E chunks \in SUBSET (0..(MaxChunks - 1)) :
       IF chunks = {}
       THEN /\ GenReturn("None")
            /\ UNCHANGED << audio_chunks, audio_segments_groups, chunk_files >>
       ELSE \E heard \in [chunks -> UNION { TranscriptionOutcomes(c) : c \in chunks }] :
              LET order == Sorted(chunks)
                  groups == [ k \in 1..Len(order) |->
                                transcribe_audio_chunk(heard[order[k]],
                                                       order[k] * ChunkDuration * 1000) ]
              IN  /\ \A c \in chunks : heard[c] \in TranscriptionOutcomes(c)
                  /\ Total(groups) <= MaxM
                  /\ audio_chunks' = order
                  /\ audio_segments_groups' = groups
                  /\ IF Total(groups) = 0
                     THEN chunk_files' = FALSE /\ GenReturn("None")
                     ELSE chunk_files' = TRUE /\ opc' = "audio_loop"
                          /\ UNCHANGED result
  /\ UNCHANGED << file_exists, subtitles, batch_size, i_batch, batch_subtitles,
                  translated_subtitles, error, handed, mode, batch_min, embedded_subs,
                  translated_texts, group, translated_segments_groups, temp_srt,
                  output >>
  /\ UNCHANGED tvars
  /\ UNCHANGED pvars

\* A group is done: after the last one the groups are merged, converted and
\* written, and the chunk files are removed.
AudioAdvance(done) ==
  /\ translated_segments_groups' = done
  /\ group' = group + 1
  /\ IF group + 1 = Len(audio_segments_groups)
     THEN /\ output' = segments_to_srt_format(Flatten(done))
          /\ chunk_files' = FALSE
          /\ GenReturn("output_file")
     ELSE UNCHANGED << output, chunk_files, opc, result >>

\* Audio modes: one pass of the group loop up to the call of the translator;
\* an empty group is passed over.
GenAudioCall ==
  /\ opc = "audio_loop" /\ pc = "idle"
  /\ group < Len(audio_segments_groups)
  /\ LET segments_group == audio_segments_groups[group + 1]
     IN  IF segments_group = <<>>
         THEN /\ AudioAdvance(Append(translated_segments_groups, <<>>))
              /\ UNCHANGED << tvars, handed >>
         ELSE /\ CallTranslator(TextsOf(segments_group), group)
              /\ UNCHANGED << translated_segments_groups, group, output,
                              chunk_files, opc, result >>
  /\ UNCHANGED << file_exists, subtitles, batch_size, i_batch, batch_subtitles,
                  translated_subtitles, error, mode, batch_min, embedded_subs, translated_texts,
                  audio_chunks, audio_segments_groups, temp_srt >>
  /\ UNCHANGED pvars

\* for j, segment in enumerate(segments_group): if j < len(translated_texts)
FormattedSegments(segments_group, translated, type) ==
  [ j \in 1..(IF Len(translated) < Len(segments_group) THEN Len(translated)
              ELSE Len(segments_group)) |->
      [segments_group[j] EXCEPT
         !.text = format_translated_subtitle(segments_group[j].text, translated[j], type)] ]

\* Audio modes: the rest of the pass.
GenAudioCollect ==
  /\ opc = "audio_loop" /\ pc = "returned"
  /\ AudioAdvance(Append(translated_segments_groups,
                         FormattedSegments(audio_segments_groups[group + 1], ret,
                                           translation_type)))
  /\ Forget
  /\ UNCHANGED << file_exists, subtitles, batch_size, i_batch, batch_subtitles,
                  translated_subtitles, error, handed, mode, batch_min, embedded_subs,
                  translated_texts, audio_chunks, audio_segments_groups, temp_srt >>
  /\ UNCHANGED pvars

\* except Exception: the KeyError of an unsupported translation type ends
\* the function with None.
GenCatch ==
  /\ opc \in {"embedded_loop", "audio_loop"} /\ pc = "raised"
  /\ GenReturn("None")
  /\ error' = "KeyError"
  /\ Forget
  /\ UNCHANGED << file_exists, subtitles, batch_size, i_batch, batch_subtitles,
                  translated_subtitles, handed, mode, batch_min, embedded_subs,
                  translated_texts, audio_chunks, audio_segments_groups, group,
                  translated_segments_groups, temp_srt, chunk_files, output >>
  /\ UNCHANGED pvars

NextGen ==
  \/ GenStart \/ GenEmbeddedPrepare \/ GenEmbeddedCall \/ GenEmbeddedCollect
  \/ GenAutoDetect \/ GenAudioPrepare \/ GenAudioCall \/ GenAudioCollect
  \/ GenCatch \/ BatchStep \/ SingleStep

SpecGen == InitGen /\ [][NextGen]_vars

\* ------------------------------------------------------------- parse_srt, generate_srt
\* In the text of a subtitle file a token is, besides "s" and "n", a decimal
\* digit "0".."9", a sign "+" or "-", "A" for the marker -->, or another
\* character.
Digits == <<"0", "1", "2", "3", "4", "5", "6", "7", "8", "9">>

IsDigit(t) == \E d \in 1..10 : Digits[d] = t

DigitValue(t) == (CHOOSE d \in 1..10 : Digits[d] = t) - 1

RECURSIVE DigitsValue(_)
DigitsValue(ds) ==
  IF ds = <<>> THEN 0
  ELSE DigitsValue(SubSeq(ds, 1, Len(ds) - 1)) * 10 + DigitValue(ds[Len(ds)])

\* The part of a stripped numeral after its sign.
Unsigned(t) == IF t # <<>> /\ Head(t) \in {"+", "-"} THEN Tail(t) ELSE t

\* int(line) does not raise ValueError: whitespace around, an optional
\* sign, one or more digits.
IsInt(line) ==
  LET ds == Unsigned(Strip(line))
  IN  ds # <<>> /\ \A k \in 1..Len(ds) : IsDigit(ds[k])

\* int(line)
IntOf(line) ==
  LET t == Strip(line)
  IN  IF Head(t) = "-" THEN 0 - DigitsValue(Unsigned(t)) ELSE DigitsValue(Unsigned(t))

\* str(n) for n >= 0
RECURSIVE NatStr(_)
NatStr(n) ==
  IF n < 10 THEN << Digits[n + 1] >>
  ELSE NatStr(n \div 10) \o << Digits[(n % 10) + 1] >>

\* str(index)
StrOfInt(i) == IF i < 0 THEN <<"-">> \o NatStr(0 - i) ELSE NatStr(i)

\* str.split('\n')
RECURSIVE LinesFrom(_, _, _)
LinesFrom(s, cur, acc) ==
  IF s = <<>> THEN Append(acc, cur)
  ELSE IF Head(s) = "n" THEN LinesFrom(Tail(s), <<>>, Append(acc, cur))
  ELSE LinesFrom(Tail(s), Append(cur, Head(s)), acc)

SplitLines(s) == LinesFrom(s, <<>>, <<>>)

\* '\n'.join(lines)
RECURSIVE JoinLines(_)
JoinLines(lines) ==
  IF lines = <<>> THEN <<>>
  ELSE IF Len(lines) = 1 THEN lines[1]
  ELSE lines[1] \o <<"n">> \o JoinLines(Tail(lines))

\* The length of the longest prefix of s that is whitespace.
RECURSIVE WhiteRun(_)
WhiteRun(s) ==
  IF s = <<>> \/ ~IsSpace(Head(s)) THEN 0 ELSE 1 + WhiteRun(Tail(s))

\* The place of the last line break among the first k tokens of s, or 0.
RECURSIVE LastBreak(_, _)
LastBreak(s, k) ==
  IF k = 0 THEN 0 ELSE IF s[k] = "n" THEN k ELSE LastBreak(s, k - 1)

\* re.split of the pattern line break, whitespace, line break: a separator
\* starts at a line break and runs to the last line break of the whitespace
\* that follows it.
RECURSIVE BlocksFrom(_, _, _)
BlocksFrom(s, cur, acc) ==
  IF s = <<>> THEN Append(acc, cur)
  ELSE IF Head(s) = "n"
       THEN LET rest == Tail(s)
                last == LastBreak(rest, WhiteRun(rest))
            IN  IF last > 0
                THEN BlocksFrom(SubSeq(rest, last + 1, Len(rest)), <<>>, Append(acc, cur))
                ELSE BlocksFrom(rest, Append(cur, "n"), acc)
  ELSE BlocksFrom(Tail(s), Append(cur, Head(s)), acc)

\* (a variant that takes every second line for a timeline)
HasMarkerAlways(time_line) == TRUE

\* '-->' in time_line
HasMarker(time_line) == "A" \in Range(time_line)

\* The body of the loop over the blocks: the records the block adds.
RecordsOfBlock(block) ==
  IF Strip(block) = <<>> THEN <<>>
  ELSE LET lines == SplitLines(Strip(block))
       IN  IF Len(lines) < 3 THEN <<>>
           ELSE IF ~IsInt(lines[1]) THEN <<>>
           ELSE IF ~HasMarker(lines[2]) THEN <<>>
           ELSE << [index |-> IntOf(lines[1]),
                    timeline |-> lines[2],
                    text |-> JoinLines(SubSeq(lines, 3, Len(lines)))] >>

RECURSIVE RecordsOf(_)
RecordsOf(blocks) ==
  IF blocks = <<>> THEN <<>>
  ELSE RecordsOfBlock(Head(blocks)) \o RecordsOf(Tail(blocks))

\* SubtitleTranslator.parse_srt
parse_srt(content) == RecordsOf(BlocksFrom(Strip(content), <<>>, <<>>))

\* The four lines generate_srt appends for every record.
RECURSIVE SrtLines(_)
SrtLines(records) ==
  IF records = <<>> THEN <<>>
  ELSE << StrOfInt(Head(records).index), Head(records).timeline,
          Head(records).text, <<>> >> \o SrtLines(Tail(records))

\* (a variant that leaves out the empty line after a record)
RECURSIVE SrtLinesTight(_)
SrtLinesTight(records) ==
  IF records = <<>> THEN <<>>
  ELSE << StrOfInt(Head(records).index), Head(records).timeline,
          Head(records).text >> \o SrtLinesTight(Tail(records))

generate_srt_tight(records) == JoinLines(SrtLinesTight(records))

\* SubtitleTranslator.generate_srt
generate_srt(records) == JoinLines(SrtLines(records))

\* The blocks a subtitle file is put together from: the text of the block,
\* and the record it stands for when it is a valid block.
BlockShapes ==
  { [valid |-> TRUE, index |-> 7, timeline |-> <<"0", "A", "1">>, body |-> <<"x">>,
     block |-> <<"7", "n", "0", "A", "1", "n", "x">>],
    [valid |-> TRUE, index |-> 3, timeline |-> <<"s", "A", "s">>,
     body |-> <<"x", "n", "s", "y">>,
     block |-> <<"s", "0", "3", "s", "n", "s", "A", "s", "n", "x", "n", "s", "y">>],
    [valid |-> TRUE, index |-> 0 - 12, timeline |-> <<"A">>, body |-> <<"4", "n", "A">>,
     block |-> <<"-", "1", "2", "n", "A", "n", "4", "n", "A">>],
    [valid |-> FALSE, index |-> 0, timeline |-> <<>>, body |-> <<>>,
     block |-> <<"1", "x", "n", "0", "A", "1", "n", "y">>],
    [valid |-> FALSE, index |-> 0, timeline |-> <<>>, body |-> <<>>,
     block |-> <<"5", "n", "0", "1", "n", "y">>],
    [valid |-> FALSE, index |-> 0, timeline |-> <<>>, body |-> <<>>,
     block |-> <<"5", "n", "0", "A", "1">>] }

\* What stands between two blocks: one or more lines that are empty or blank.
Separators == { <<"n", "n">>, <<"n", "s", "n", "n", "s">> }

\* What stands before the first block and after the last one.
Margins == { <<>>, <<"n", "s", "n">> }

RECURSIVE ContentOf(_, _)
ContentOf(blocks, sep) ==
  IF blocks = <<>> THEN <<>>
  ELSE IF Len(blocks) = 1 THEN blocks[1].block
  ELSE blocks[1].block \o sep \o ContentOf(Tail(blocks), sep)

InitParse ==
  /\ Idle
  /\ translation_type = "zhongwen"
  /\ NoDriver
  /\ ppc = "input"
  /\ srt_blocks \in SeqsOf(BlockShapes, MaxBlocks)
  /\ \E sep \in Separators, margin \in Margins :
       srt_content = margin \o ContentOf(srt_blocks, sep) \o margin
  /\ parsed = <<>>
  /\ serialized = <<>>
  /\ reparsed = <<>>
  /\ NoFormat
  /\ NoAss
  /\ NoMedia

ParseSrt ==
  /\ ppc = "input"
  /\ parsed' = parse_srt(srt_content)
  /\ ppc' = "parsed"
  /\ UNCHANGED << srt_blocks, srt_content, serialized, reparsed, fvars, avars, mvars, tvars, ovars >>

GenerateSrt ==
  /\ ppc = "parsed"
  /\ serialized' = generate_srt(parsed)
  /\ ppc' = "serialized"
  /\ UNCHANGED << srt_blocks, srt_content, parsed, reparsed, fvars, avars, mvars, tvars, ovars >>

ReparseSrt ==
  /\ ppc = "serialized"
  /\ reparsed' = parse_srt(serialized)
  /\ ppc' = "reparsed"
  /\ UNCHANGED << srt_blocks, srt_content, parsed, serialized, fvars, avars, mvars, tvars, ovars >>

NextParse == ParseSrt \/ GenerateSrt \/ ReparseSrt

SpecParse == InitParse /\ [][NextParse]_vars

\* ------------------------------------------------------------- format_translated_subtitle on its own
\* Original texts: empty, Chinese, not Chinese, Chinese to less than 30%,
\* of two lines, blank.
OriginalTexts ==
  { <<>>, <<"z", "z">>, <<"h", "i">>, <<"z", "h", "i", "s", "o">>,
    <<"h", "n", "z">>, <<"s">> }

\* Translated texts: empty, of one line, of two lines, a single line break,
\* a line and a line break.
TranslatedTexts ==
  { <<>>, <<"t">>, <<"z", "s", "t">>, <<"t", "n", "z">>, <<"n">>, <<"t", "n">> }

InitFormat ==
  /\ Idle
  /\ translation_type \in translation_rules_dict \cup { Unsupported }
  /\ NoDriver
  /\ ppc = "arguments"
  /\ NoParse
  /\ fmt_original \in OriginalTexts
  /\ fmt_translated \in TranslatedTexts
  /\ formatted = <<>>
  /\ formatted_again = <<>>
  /\ NoAss
  /\ NoMedia

Format ==
  /\ ppc = "arguments"
  /\ formatted' = format_translated_subtitle(fmt_original, fmt_translated,
                                             translation_type)
  /\ ppc' = "formatted"
  /\ UNCHANGED << fmt_original, fmt_translated, formatted_again, svars, avars, mvars, tvars, ovars >>

FormatAgain ==
  /\ ppc = "formatted"
  /\ formatted_again' = format_translated_subtitle(fmt_original, formatted,
                                                   translation_type)
  /\ ppc' = "formatted_again"
  /\ UNCHANGED << fmt_original, fmt_translated, formatted, svars, avars, mvars, tvars, ovars >>

NextFormat == Format \/ FormatAgain

SpecFormat == InitFormat /\ [][NextFormat]_vars

\* ------------------------------------------------------------- ASSConverter.srt_to_ass
\* In the text handed to _parse_srt_file a token may also be a whole SRT
\* time of the form hh:mm:ss,mmm.
TimeStamps == { "00:00:01,000", "00:00:02,500", "10:00:03,999" }

\* ASSConverter._parse_srt_time: the comma becomes a point, the hour loses
\* its leading zero, the milliseconds their last digit.
parse_srt_time(time_str) ==
  CASE time_str = "00:00:01,000" -> "0:00:01.00"
    [] time_str = "00:00:02,500" -> "0:00:02.50"
    [] time_str = "10:00:03,999" -> "10:00:03.99"

\* The line without its first token and the whitespace after it.
AfterToken(line) ==
  LET rest == Tail(line)
  IN  SubSeq(rest, WhiteRun(rest) + 1, Len(rest))

\* re.match of the time pattern: a time at the very start of the line,
\* whitespace, the marker, whitespace, a time.
time_match(line) ==
  /\ line # <<>> /\ Head(line) \in TimeStamps
  /\ AfterToken(line) # <<>> /\ Head(AfterToken(line)) = "A"
  /\ AfterToken(AfterToken(line)) # <<>>
  /\ Head(AfterToken(AfterToken(line))) \in TimeStamps

\* '\\N'.join(lines)
RECURSIVE JoinN(_)
JoinN(lines) ==
  IF lines = <<>> THEN <<>>
  ELSE IF Len(lines) = 1 THEN lines[1]
  ELSE lines[1] \o <<"N">> \o JoinN(Tail(lines))

\* The body of the loop of _parse_srt_file: the subtitles the block adds.
AssRecordsOfBlock(block) ==
  LET lines == SplitLines(Strip(block))
  IN  IF Len(lines) < 3 THEN <<>>
      ELSE IF ~time_match(lines[2]) THEN <<>>
      ELSE << [start |-> parse_srt_time(Head(lines[2])),
               end |-> parse_srt_time(Head(AfterToken(AfterToken(lines[2])))),
               text |-> JoinN(SubSeq(lines, 3, Len(lines)))] >>

RECURSIVE AssRecordsOf(_)
AssRecordsOf(blocks) ==
  IF blocks = <<>> THEN <<>>
  ELSE AssRecordsOfBlock(Head(blocks)) \o AssRecordsOf(Tail(blocks))

\* ASSConverter._parse_srt_file
parse_srt_file(content) == AssRecordsOf(BlocksFrom(Strip(content), <<>>, <<>>))

\* self.config["styles"]: a style with an effect and a "name" of its own,
\* and a style without either.
StyleConfigs ==
  [ key \in {"nihong", "plain"} |->
      IF key = "nihong" THEN [has_name |-> TRUE, name |-> "Neon"]
      ELSE [has_name |-> FALSE, name |-> ""] ]

\* ASSConverter.get_style_list
get_style_list == DOMAIN StyleConfigs

\* A style name that is no key of the configuration.
MissingStyle == "missing"

\* current_style_config.get("name", style_name)
style_internal_name(style_name) ==
  IF StyleConfigs[style_name].has_name THEN StyleConfigs[style_name].name
  ELSE style_name

\* The name in the Style line of the header: style_config.get('name', 'Default')
header_style_name(style_name) ==
  IF StyleConfigs[style_name].has_name THEN StyleConfigs[style_name].name
  ELSE "Default"

\* ASSConverter._apply_effects
apply_effects(text, style_name) ==
  IF style_name = "nihong" THEN <<"{blur}">> \o text ELSE text

\* (a variant that leaves out the last subtitle)
EventsButLast(subs, style_name) ==
  [ k \in 1..(Len(subs) - 1) |->
      [start |-> subs[k].start, end |-> subs[k].end,
       style |-> style_internal_name(style_name),
       text |-> apply_effects(subs[k].text, style_name)] ]

\* The Dialogue lines of one file.
EventsOf(subs, style_name) ==
  [ k \in 1..Len(subs) |->
      [start |-> subs[k].start, end |-> subs[k].end,
       style |-> style_internal_name(style_name),
       text |-> apply_effects(subs[k].text, style_name)] ]

\* os.path.join(output_dir, srt_filename + "_" + style_name + ".ass")
OutputPath(style_name) == <<"output", "srt_filename", style_name, ".ass">>

OutputPathsOf == { OutputPath(key) : key \in get_style_list }

NoFile == [kind |-> "absent", styles |-> <<>>, events |-> <<>>]
OldFile == [kind |-> "old", styles |-> <<>>, events |-> <<>>]

\* The blocks of the subtitle file: the text of the block, and the times and
\* the text it stands for when _parse_srt_file takes it.
AssBlockShapes ==
  { [valid |-> TRUE, start |-> "0:00:01.00", end |-> "0:00:02.50", body |-> <<"x">>,
     block |-> <<"1", "n", "00:00:01,000", "A", "00:00:02,500", "n", "x">>],
    [valid |-> TRUE, start |-> "0:00:02.50", end |-> "10:00:03.99",
     body |-> <<"x", "N", "y">>,
     block |-> <<"k", "n", "00:00:02,500", "s", "A", "s", "10:00:03,999", "s", "k",
                 "n", "x", "n", "y">>],
    [valid |-> FALSE, start |-> "", end |-> "", body |-> <<>>,
     block |-> <<"2", "n", "s", "00:00:01,000", "A", "00:00:02,500", "n", "x">>],
    [valid |-> FALSE, start |-> "", end |-> "", body |-> <<>>,
     block |-> <<"3", "n", "00:00:01,000", "A", "n", "x">>],
    [valid |-> FALSE, start |-> "", end |-> "", body |-> <<>>,
     block |-> <<"4", "n", "00:00:01,000", "A", "00:00:02,500">>] }

InitAss ==
  /\ Idle
  /\ translation_type = "zhongwen"
  /\ NoDriver
  /\ ppc = "ass_start"
  /\ NoParse
  /\ NoFormat
  /\ style_names \in SeqsOf(get_style_list \cup { MissingStyle }, MaxStyles)
  /\ ass_blocks \in SeqsOf(AssBlockShapes, MaxBlocks)
  /\ ass_text = ContentOf(ass_blocks, <<"n", "s", "n">>)
  /\ ass_subtitles = <<>>
  /\ ass_done = 0
  /\ ass_files \in [OutputPathsOf -> {NoFile, OldFile}]
  /\ output_paths = <<>>
  /\ ass_error = "none"
  /\ NoMedia

\* The tests of the style names, the parsing and its test.
AssStart ==
  /\ ppc = "ass_start"
  /\ IF style_names = <<>>
     THEN ppc' = "ass_raised" /\ ass_error' = "ValueError" /\ UNCHANGED ass_subtitles
     ELSE IF \E k \in 1..Len(style_names) : style_names[k] \notin get_style_list
     THEN ppc' = "ass_raised" /\ ass_error' = "ValueError" /\ UNCHANGED ass_subtitles
     ELSE /\ ass_subtitles' = parse_srt_file(ass_text)
          /\ IF parse_srt_file(ass_text) = <<>>
             THEN ppc' = "ass_raised" /\ ass_error' = "ValueError"
             ELSE ppc' = "ass_loop" /\ UNCHANGED ass_error
  /\ UNCHANGED << style_names, ass_blocks, ass_text, ass_done, ass_files, output_paths >>
  /\ UNCHANGED << svars, fvars, mvars, tvars, ovars >>

\* One pass of the loop over the style names: the file of the style is
\* written; after the last pass the list of paths is returned.
AssWrite ==
  /\ ppc = "ass_loop"
  /\ ass_done < Len(style_names)
  /\ LET style_name == style_names[ass_done + 1]
         ass_content == [kind |-> "ass",
                         styles |-> << header_style_name(style_name) >>,
                         events |-> EventsOf(ass_subtitles, style_name)]
     IN  /\ ass_files' = [ass_files EXCEPT ![OutputPath(style_name)] = ass_content]
         /\ output_paths' = Append(output_paths, OutputPath(style_name))
  /\ ass_done' = ass_done + 1
  /\ ppc' = IF ass_done + 1 = Len(style_names) THEN "ass_returned" ELSE "ass_loop"
  /\ UNCHANGED << style_names, ass_blocks, ass_text, ass_subtitles, ass_error >>
  /\ UNCHANGED << svars, fvars, mvars, tvars, ovars >>

NextAss == AssStart \/ AssWrite

SpecAss == InitAss /\ [][NextAss]_vars

\* ------------------------------------------------------------- embed_subtitles
\* File name extensions as they are written, and what str.lower makes of them.
VideoExts == { ".mkv", ".MKV", ".mp4", ".Mp4", ".avi", ".mov", ".webm" }

SubtitleExts == { ".ass", ".ASS", ".srt" }

lower_unchanged(ext) == ext

lower(ext) ==
  CASE ext = ".MKV" -> ".mkv"
    [] ext = ".Mp4" -> ".mp4"
    [] ext = ".ASS" -> ".ass"
    [] OTHER -> ext

\* The entries of subtitle_files: something that is no dict, a dict without
\* 'path', a dict whose 'path' is no string (os.path.exists takes an open
\* file descriptor for an existing file), a dict with the path of a file.
SubtitleEntries ==
  { [kind |-> "not_dict", ext |-> "", exists |-> FALSE],
    [kind |-> "no_path", ext |-> "", exists |-> FALSE],
    [kind |-> "path_not_str", ext |-> "", exists |-> TRUE] } \cup
  { [kind |-> "path", ext |-> e, exists |-> x] : e \in SubtitleExts, x \in BOOLEAN }

\* output_path: empty, a directory that exists, one that os.makedirs creates,
\* one that os.makedirs fails to create.
OutputPaths == { "", "dir", "new_dir", "no_dir" }

\* The loop over subtitle_files: the error of the first entry that fails a
\* test, "none" when every entry passes.
RECURSIVE EntryError(_, _)
EntryError(subs, i) ==
  IF i > Len(subs) THEN "none"
  ELSE IF subs[i].kind = "not_dict" THEN "not_dict"
  ELSE IF subs[i].kind = "no_path" THEN "no_path"
  ELSE IF ~subs[i].exists THEN "subtitle_missing"
  ELSE EntryError(subs, i + 1)

\* The tests before the command is built, in the order of the code.
ValidationError(video, subs, out, ffmpeg) ==
  IF ~video.exists THEN "video_missing"
  ELSE IF subs = <<>> THEN "empty_list"
  ELSE IF EntryError(subs, 1) # "none" THEN EntryError(subs, 1)
  ELSE IF out = "" THEN "empty_output"
  ELSE IF ~ffmpeg THEN "ffmpeg_missing"
  ELSE IF out = "no_dir" THEN "makedirs"
  ELSE "none"

\* any(sub_info["path"].lower().endswith('.ass') ...): any stops at the first
\* entry that ends in .ass; an entry before it whose path is no string makes
\* .lower() raise AttributeError.
RECURSIVE AnyAss(_, _)
AnyAss(subs, i) ==
  IF i > Len(subs) THEN "False"
  ELSE IF subs[i].kind = "path_not_str" THEN "AttributeError"
  ELSE IF lower(subs[i].ext) = ".ass" THEN "True"
  ELSE AnyAss(subs, i + 1)

has_ass_subtitles(subs) == AnyAss(subs, 1) = "True"

subtitle_codec(preserve, video_ext, subs) ==
  IF preserve /\ lower(video_ext) \in { ".mkv", ".avi", ".mov" } /\ has_ass_subtitles(subs)
  THEN "ass"
  ELSE IF lower(video_ext) = ".mp4" THEN "mov_text"
  ELSE "srt"

\* The command: one -i per subtitle file, -c:s with the codec, and
\* -disposition:s default for the codec ass.
CommandOf(subs, codec) ==
  [inputs |-> Len(subs), codec |-> codec, disposition |-> (codec = "ass")]

\* The dicts returned.
Failure(e) == [kind |-> "dict", success |-> FALSE, error |-> e, subtitle_codec |-> ""]

Success(codec) == [kind |-> "dict", success |-> TRUE, error |-> "none",
                   subtitle_codec |-> codec]

\* except Exception as e: return {"success": False, ...}
embed_except(e) == Failure("exception")

\* How a call of subprocess.run ends: ffmpeg exits with a return code, and
\* the output file is there or not; or the process cannot be started.
FfmpegOutcomes ==
  { [kind |-> "exit", returncode |-> r, created |-> c] : r \in {0, 1}, c \in BOOLEAN } \cup
  { [kind |-> "OSError", returncode |-> 1, created |-> FALSE] }

ResultOfAnyExit(o, codec) ==
  IF o.kind # "exit" THEN embed_except(o.kind)
  ELSE IF ~o.created THEN Failure("no_output")
  ELSE Success(codec)

\* What is returned after subprocess.run.
ResultOf(o, codec) ==
  IF o.kind # "exit" THEN embed_except(o.kind)
  ELSE IF o.returncode # 0 THEN Failure("ffmpeg_failed")
  ELSE IF ~o.created THEN Failure("no_output")
  ELSE Success(codec)

InitEmbed ==
  /\ Idle
  /\ translation_type = "zhongwen"
  /\ NoDriver
  /\ ppc = "embed_call"
  /\ NoParse
  /\ NoFormat
  /\ NoAss
  /\ NoProbe
  /\ NoTranscribe
  /\ video_path \in [exists : BOOLEAN, ext : VideoExts]
  /\ subtitle_files \in SeqsOf(SubtitleEntries, MaxSubs)
  /\ output_path \in OutputPaths
  /\ preserve_ass_styles \in BOOLEAN
  /\ ffmpeg_exists \in BOOLEAN
  /\ cmd = NoCmd
  /\ ffmpeg_runs = 0
  /\ ffmpeg_exit = NoExit
  /\ embed_result = NoResult

\* The tests, the choice of the codec and the building of the command.
EmbedPrepare ==
  /\ ppc = "embed_call"
  /\ LET e == ValidationError(video_path, subtitle_files, output_path, ffmpeg_exists)
         codec == subtitle_codec(preserve_ass_styles, video_path.ext, subtitle_files)
     IN  IF e # "none"
         THEN /\ embed_result' = Failure(e)
              /\ ppc' = "embed_returned"
              /\ UNCHANGED cmd
         ELSE IF AnyAss(subtitle_files, 1) = "AttributeError"
         THEN /\ embed_result' = embed_except("AttributeError")
              /\ ppc' = "embed_returned"
              /\ UNCHANGED cmd
         ELSE /\ cmd' = CommandOf(subtitle_files, codec)
              /\ ppc' = "embed_ffmpeg"
              /\ UNCHANGED embed_result
  /\ UNCHANGED << video_path, subtitle_files, output_path, preserve_ass_styles,
                  ffmpeg_exists, ffmpeg_runs, ffmpeg_exit >>
  /\ UNCHANGED << svars, fvars, avars, qvars, hvars, tvars, ovars >>

\* subprocess.run(cmd) and the return. A path that is no string among the
\* arguments makes subprocess.run raise TypeError before a process starts.
EmbedRun ==
  /\ ppc = "embed_ffmpeg"
  /\ ffmpeg_runs' = ffmpeg_runs + 1
  /\ IF \E i \in 1..Len(subtitle_files) : subtitle_files[i].kind = "path_not_str"
     THEN /\ ffmpeg_exit' = [kind |-> "TypeError", returncode |-> 1, created |-> FALSE]
          /\ embed_result' = embed_except("TypeError")
     ELSE \E o \in FfmpegOutcomes :
            /\ ffmpeg_exit' = o
            /\ embed_result' = ResultOf(o, cmd.codec)
  /\ ppc' = "embed_returned"
  /\ UNCHANGED << video_path, subtitle_files, output_path, preserve_ass_styles,
                  ffmpeg_exists, cmd >>
  /\ UNCHANGED << svars, fvars, avars, qvars, hvars, tvars, ovars >>

NextEmbed == EmbedPrepare \/ EmbedRun

SpecEmbed == InitEmbed /\ [][NextEmbed]_vars

\* ------------------------------------------------------------- media probing
\* get_video_info of video_info.py, and detect_embedded_subtitles and
\* get_video_duration of AudioTranslator. Each runs ffprobe once.
ProbeFunctions == { "get_video_info", "detect_embedded_subtitles", "get_video_duration" }

CodecTypes == { "video", "audio", "subtitle" }

\* format.duration in the output of ffprobe: not there, a number, or a text
\* float() does not take.
Durations == { "absent", "12.5", "N/A" }

\* What ffprobe writes to stdout: nothing, blanks, a text that is no JSON, a
\* JSON text that is no object, or an object with the streams (their
\* codec_type) and the format.
Stdouts ==
  { [kind |-> k, streams |-> <<>>, duration |-> "absent"] :
      k \in { "empty", "blank", "not_json", "json_list" } } \cup
  { [kind |-> "json", streams |-> st, duration |-> d] :
      st \in SeqsOf(CodecTypes, MaxStreams), d \in Durations }

\* subprocess.run(..., timeout=30) of the two methods of AudioTranslator;
\* get_video_info passes no timeout.
HasTimeout(fn) == fn # "get_video_info"

\* How the run of ffprobe ends: the binary is not found, ffprobe does not end,
\* or it exits; for a file that does not exist it exits with a code other
\* than 0.
RunOutcomes(has_file, binary_exists) ==
  IF ~binary_exists
  THEN { [kind |-> "FileNotFoundError", returncode |-> 1, stdout |-> NoStdout] }
  ELSE { [kind |-> "hang", returncode |-> 1, stdout |-> NoStdout] } \cup
       { [kind |-> "exit", returncode |-> r, stdout |-> so] :
           r \in (IF has_file THEN {0, 1} ELSE {1}), so \in Stdouts }

\* The values returned.
ErrorDict == [kind |-> "dict", error |-> TRUE, streams |-> <<>>]

VideoInfo(subs) == [kind |-> "dict", error |-> FALSE, streams |-> subs]

StreamList(subs) == [kind |-> "list", error |-> FALSE, streams |-> subs]

None == [kind |-> "None", error |-> FALSE, streams |-> <<>>]

Float == [kind |-> "float", error |-> FALSE, streams |-> <<>>]

IsSubtitle(codec_type) == codec_type = "subtitle"

\* get_video_info after subprocess.run; o is not a run without end.
video_info_of(o) ==
  IF o.kind # "exit" THEN ErrorDict
  ELSE IF o.returncode # 0 THEN ErrorDict
  ELSE IF o.stdout.kind # "json" THEN ErrorDict
  ELSE IF \A k \in 1..Len(o.stdout.streams) : o.stdout.streams[k] # "video" THEN ErrorDict
  ELSE VideoInfo(SelectSeq(o.stdout.streams, IsSubtitle))

subtitle_streams_ignoring_exit(o) ==
  IF o.kind # "exit" THEN StreamList(<<>>)
  ELSE IF o.stdout.kind # "json" THEN StreamList(<<>>)
  ELSE StreamList(SelectSeq(o.stdout.streams, IsSubtitle))

\* detect_embedded_subtitles after subprocess.run; a run without end is
\* TimeoutExpired here.
subtitle_streams_of(o) ==
  IF o.kind # "exit" THEN StreamList(<<>>)
  ELSE IF o.returncode # 0 THEN StreamList(<<>>)
  ELSE IF o.stdout.kind # "json" THEN StreamList(<<>>)
  ELSE StreamList(SelectSeq(o.stdout.streams, IsSubtitle))

\* get_video_duration after subprocess.run.
video_duration_of(o) ==
  IF o.kind # "exit" THEN None
  ELSE IF o.returncode # 0 THEN None
  ELSE IF o.stdout.kind # "json" THEN None
  ELSE IF o.stdout.duration = "12.5" THEN Float
  ELSE None

InitProbe ==
  /\ Idle
  /\ translation_type = "zhongwen"
  /\ NoDriver
  /\ ppc = "probe_call"
  /\ NoParse
  /\ NoFormat
  /\ NoAss
  /\ NoEmbed
  /\ NoTranscribe
  /\ probe_fn \in ProbeFunctions
  /\ probe_file_exists \in BOOLEAN
  /\ ffprobe_exists \in BOOLEAN
  /\ ffprobe = NoRun
  /\ probe_result = NoProbeResult

\* The tests of get_video_info before the run, and the start of ffprobe.
ProbeStart ==
  /\ ppc = "probe_call"
  /\ IF probe_fn = "get_video_info" /\ (~probe_file_exists \/ ~ffprobe_exists)
     THEN /\ probe_result' = ErrorDict
          /\ ppc' = "probe_returned"
          /\ UNCHANGED ffprobe
     ELSE /\ ffprobe' \in RunOutcomes(probe_file_exists, ffprobe_exists)
          /\ ppc' = "probe_running"
          /\ UNCHANGED probe_result
  /\ UNCHANGED << probe_fn, probe_file_exists, ffprobe_exists >>
  /\ UNCHANGED << svars, fvars, avars, evars, hvars, tvars, ovars >>

\* subprocess.run returns or raises, and the function returns. Without a
\* timeout the function waits as long as ffprobe runs.
ProbeFinish ==
  /\ ppc = "probe_running"
  /\ ffprobe.kind = "hang" => HasTimeout(probe_fn)
  /\ probe_result' = CASE probe_fn = "get_video_info" -> video_info_of(ffprobe)
                       [] probe_fn = "detect_embedded_subtitles" -> subtitle_streams_of(ffprobe)
                       [] OTHER -> video_duration_of(ffprobe)
  /\ ppc' = "probe_returned"
  /\ UNCHANGED << probe_fn, probe_file_exists, ffprobe_exists, ffprobe >>
  /\ UNCHANGED << svars, fvars, avars, evars, hvars, tvars, ovars >>

NextProbe == ProbeStart \/ ProbeFinish

SpecProbe == InitProbe /\ [][NextProbe]_vars

\* ------------------------------------------------------------- the transcription loop
\* The loop of generate_subtitles over audio_chunks with any answer of the
\* transcription service: per segment a text that is speech with or without
\* whitespace around it, blank, or empty, and times relative to the chunk.
SegmentTexts == { <<"s", "w", "s">>, <<"w", "n">>, <<"s">>, <<>> }

AnySegment(j, text) ==
  [start |-> (j - 1) * 2500 + 40, end |-> (j - 1) * 2500 + 1750, text |-> text]

AnyResponses ==
  { [j \in 1..Len(ts) |-> AnySegment(j, ts[j])] : ts \in SeqsOf(SegmentTexts, MaxGroupLen) }

AnyTranscriptionOutcomes ==
  { [ok |-> FALSE, segments |-> <<>>] } \cup { [ok |-> TRUE, segments |-> r] : r \in AnyResponses }

\* start_time of a chunk in extract_audio_chunks: i * chunk_duration, in
\* milliseconds.
chunk_start_time(chunk_index) == chunk_index * ChunkDuration * 1000

InitTranscribe ==
  /\ Idle
  /\ translation_type = "zhongwen"
  /\ NoDriver
  /\ ppc = "transcribe_loop"
  /\ NoParse
  /\ NoFormat
  /\ NoAss
  /\ NoEmbed
  /\ NoProbe
  /\ \E chunks \in (SUBSET (0..(MaxChunks - 1))) \ { {} } : chunk_indices = Sorted(chunks)
  /\ transcriptions = <<>>
  /\ segments_groups = <<>>

\* One pass of the loop: the chunk is transcribed and its group appended,
\* the empty list when no segment came back.
TranscribeChunk ==
  /\ ppc = "transcribe_loop"
  /\ \E o \in AnyTranscriptionOutcomes :
       LET chunk_index == chunk_indices[Len(segments_groups) + 1]
           segments == transcribe_audio_chunk(o, chunk_start_time(chunk_index))
       IN  /\ transcriptions' = Append(transcriptions, o)
           /\ segments_groups' = Append(segments_groups,
                                        IF segments # <<>> THEN segments ELSE <<>>)
  /\ ppc' = IF Len(segments_groups) + 1 = Len(chunk_indices) THEN "transcribe_done"
            ELSE "transcribe_loop"
  /\ UNCHANGED chunk_indices
  /\ UNCHANGED << svars, fvars, avars, evars, qvars, tvars, ovars >>

NextTranscribe == TranscribeChunk

SpecTranscribe == InitTranscribe /\ [][NextTranscribe]_vars

\* ------------------------------------------------------------- what the claims speak of
\* The claims' own reading of a text, by positions rather than by the
\* code's loops.
Min(S) == CHOOSE x \in S : \A y \in S : x <= y
Max(S) == CHOOSE x \in S : \A y \in S : x >= y

\* s without its leading and trailing whitespace.
TrimOf(s) ==
  LET solid == { k \in 1..Len(s) : ~IsSpace(s[k]) }
  IN  IF solid = {} THEN <<>> ELSE SubSeq(s, Min(solid), Max(solid))

\* A segment trimmed, with its leading ordinal label removed.
CleanOf(seg) ==
  LET t == TrimOf(seg)
  IN  IF t # <<>> /\ t[1] = "L" THEN TrimOf(SubSeq(t, 2, Len(t))) ELSE t

\* The delimited segments of a response, in response order.
DelimAt(text) == { k \in 1..Len(text) : text[k] = "D" }
NthDelim(text, j) ==
  CHOOSE p \in DelimAt(text) : Cardinality({ q \in DelimAt(text) : q < p }) = j - 1
SegmentsOf(text) ==
  LET n == Cardinality(DelimAt(text)) + 1
  IN  [ j \in 1..n |->
          SubSeq(text,
                 IF j = 1 THEN 1 ELSE NthDelim(text, j - 1) + 1,
                 IF j = n THEN Len(text) ELSE NthDelim(text, j) - 1) ]

NotEmpty(c) == c # <<>>
\* The cleaned segments of a response that are not empty, in response order.
CleanedSegmentsOf(text) ==
  LET segs == SegmentsOf(text)
  IN  SelectSeq([ j \in 1..Len(segs) |-> CleanOf(segs[j]) ], NotEmpty)

\* What the k-th translate_single_text of a fallback gave.
PerItem(k) ==
  IF max_retries = 0 THEN texts[k]
  ELSE IF item_log[k].ok THEN TrimOf(item_log[k].ai_text) ELSE texts[k]

RECURSIVE SumCalls(_)
SumCalls(log) == IF log = <<>> THEN 0 ELSE Head(log).calls + SumCalls(Tail(log))

Supported == translation_type \in translation_rules_dict
\* The call returned through the acceptance of a batch response.
AcceptedPath == pc = "returned" /\ got_response /\ item_log = <<>>
\* The call went to the per-item fallback after a batch response.
RejectedPath == got_response /\ pc \in {"one_by_one", "returned"} /\ ~AcceptedPath

\* ------------------------------------------------------------- C1
\* C1: a call of translate_texts_batch with N texts (N >= 0) and a supported
\* type returns a list of exactly N strings, whichever path produced it.
C1_ReturnsExactlyN ==
  (pc = "returned" /\ Supported) =>
     /\ Len(ret) = Len(texts)
     /\ \A k \in 1..Len(ret) : ret[k] \in Seq(STRING)

\* The padding path and the truncation path both return.
C1_Witness ==
  /\ pc = "returned" /\ Supported /\ Len(texts) = 2
  /\ got_response /\ Len(translated_parts) = 3

\* ------------------------------------------------------------- C2
\* C2: for a batch of N >= 2 texts, entry i of the returned list is the
\* translation the service produced for text i (the cleaned i-th delimited
\* segment of the accepted response, or the per-item translation of text i)
\* or text i itself; never a translation produced for another text.
C2_NeverMisaligned ==
  (pc = "returned" /\ Supported /\ Len(texts) >= 2) =>
     \A i \in 1..Len(ret) :
        \/ ret[i] = texts[i]
        \/ /\ AcceptedPath
           /\ i <= Len(SegmentsOf(translated_text))
           /\ ret[i] = CleanOf(SegmentsOf(translated_text)[i])
        \/ /\ ~AcceptedPath
           /\ i <= Len(item_log)
           /\ ret[i] = PerItem(i)

\* ------------------------------------------------------------- C4
\* C4: when the batch response has fewer than N-1 cleaned segments, or every
\* batch attempt raised, the call returns what N per-item translations give,
\* in order (the per-item translation, or the text itself when its retries
\* are exhausted), for the whole batch, and no segment of the rejected
\* response is in the result.
C4_FallbackIsPerItem ==
  (/\ pc = "returned" /\ Supported /\ Len(texts) >= 2
   /\ \/ got_response /\ Len(translated_parts) < Len(texts) - 1
      \/ ~got_response /\ batch_errors = max_retries) =>
     /\ Len(ret) = Len(texts)
     /\ max_retries > 0 => Len(item_log) = Len(texts)
     /\ \A k \in 1..Len(ret) :
          /\ ret[k] = PerItem(k)
          /\ ret[k] \notin Range(translated_parts)

\* A rejected response with one segment, a batch of 3, and a fallback in
\* which one text was translated and another ran out of retries.
C4_Witness ==
  /\ pc = "returned" /\ Len(texts) = 3
  /\ got_response /\ Len(translated_parts) = 1
  /\ \E j, k \in 1..Len(item_log) : item_log[j].ok /\ ~item_log[k].ok

\* ------------------------------------------------------------- C5
\* C5 as stated: whenever the adapter answers the batch prompt for N texts
\* with exactly N delimited segments, the call returns those N segments,
\* each cleaned, in response order, and makes no per-item call.
C5_Original ==
  (pc = "returned" /\ Supported /\ got_response /\ split_count = Len(texts)) =>
     /\ plain_calls = 0
     /\ ret = [ j \in 1..Len(SegmentsOf(translated_text)) |->
                 CleanOf(SegmentsOf(translated_text)[j]) ]

\* C5, amended: for a batch of N >= 2 texts whose batch response has
\* exactly N segments that are not empty after cleaning, the call returns
\* exactly those N cleaned segments in response order and makes no per-item
\* call.
C5_ExactCountAccepted ==
  (/\ pc \in {"one_by_one", "returned"} /\ Supported /\ Len(texts) >= 2
   /\ got_response /\ Len(translated_parts) = Len(texts)) =>
     /\ pc = "returned"
     /\ plain_calls = 0
     /\ ret = CleanedSegmentsOf(translated_text)
     /\ Len(ret) = Len(texts)

\* Three segments for three texts, one of them labelled and padded with
\* whitespace.
C5_Witness ==
  /\ pc = "returned" /\ Len(texts) = 3 /\ got_response
  /\ Len(translated_parts) = 3
  /\ \E j \in 1..3 : SegmentsOf(translated_text)[j] # ret[j]

C7_PerItemNeverFails ==
  Supported =>
     /\ pc # "raised"
     /\ Len(translated_results) = Len(item_log)
     /\ item = Len(item_log)
     /\ plain_calls = SumCalls(item_log) + item_attempt
     /\ item_attempt <= max_retries
     /\ \A k \in 1..Len(item_log) :
          /\ item_log[k].calls <= max_retries
          /\ item_log[k].ok => translated_results[k] = TrimOf(item_log[k].ai_text)
          /\ ~item_log[k].ok =>
               /\ item_log[k].calls = max_retries
               /\ translated_results[k] = texts[k]
     /\ (pc = "returned" /\ item_log # <<>>) =>
          /\ Len(item_log) = Len(texts)
          /\ ret = translated_results

\* A text whose two attempts both raised, followed by one translated on its
\* second attempt.
C7_Witness ==
  /\ pc = "returned" /\ Len(item_log) >= 2
  /\ ~item_log[1].ok /\ item_log[1].calls = 2 /\ ret[1] = texts[1]
  /\ item_log[2].ok /\ item_log[2].calls = 2 /\ ret[2] # item_log[2].ai_text

\* ------------------------------------------------------------- C8
\* C8: with max_retries = R the delimiter-based call is issued at most R
\* times, each one after the first only after the one before raised; the
\* first response ends the batch attempts (no second request after an
\* undersized response), and the fallback for a failing call starts only
\* after the R-th attempt failed.
C8_BatchRetries ==
  (Supported /\ pc # "entry") =>
     /\ delim_calls <= max_retries
     /\ delim_calls = batch_errors + (IF got_response THEN 1 ELSE 0)
     /\ pc = "batch" => (~got_response /\ attempt = batch_errors
                          /\ batch_errors < max_retries)
     /\ got_response => pc \in {"one_by_one", "returned"}
     /\ (Len(texts) >= 2 /\ ~got_response /\ (pc = "one_by_one" \/ plain_calls > 0))
          => batch_errors = max_retries

\* The second attempt raised too and the fallback has made a call.
C8_Witness ==
  /\ Len(texts) >= 2 /\ max_retries = 2 /\ batch_errors = 2
  /\ ~got_response /\ plain_calls > 0

\* ------------------------------------------------------------- C9
\* C9: a batch of one text always takes the per-item path, so no prompt with
\* the ===NEXT=== instruction is sent, and an empty batch causes no adapter
\* call at all.
C9_SmallBatchPerItem ==
  /\ Len(texts) <= 1 => delim_calls = 0
  /\ Len(texts) = 0 => (plain_calls = 0 /\ pc \in {"entry", "returned"})
  /\ (Len(texts) = 1 /\ pc = "returned") =>
       (ret = << PerItem(1) >> /\ (max_retries > 0 => Len(item_log) = 1))

C9_Witness ==
  /\ Len(texts) = 1 /\ pc = "returned" /\ plain_calls = 2 /\ item_log[1].ok

\* ------------------------------------------------------------- C3
\* C3: translate_srt_file never drops, adds or reorders a record: the list
\* it serializes has as many records as were parsed, the k-th with the index
\* and the timeline of the k-th parsed record; only the text may differ.
\* While the loop runs, the list built so far matches the records of the
\* batches already translated.
C3_RecordsPreserved ==
  /\ opc \in {"loop", "written"} =>
       /\ Len(translated_subtitles) =
            (IF i_batch < Len(subtitles) THEN i_batch ELSE Len(subtitles))
       /\ \A k \in 1..Len(translated_subtitles) :
            /\ translated_subtitles[k].index = subtitles[k].index
            /\ translated_subtitles[k].timeline = subtitles[k].timeline
  /\ opc = "written" =>
       /\ Len(output) = Len(subtitles)
       /\ \A k \in 1..Len(output) :
            /\ output[k].index = subtitles[k].index
            /\ output[k].timeline = subtitles[k].timeline

\* Three records in batches of two, written with a translated text.
C3_Witness ==
  /\ opc = "written" /\ Len(subtitles) = 3 /\ batch_size = 2
  /\ translated_subtitles[1].text # subtitles[1].text
  /\ translated_subtitles[3].text = subtitles[3].text

\* The texts handed to the translator so far, call after call.
HandedTexts == Flatten([k \in 1..Len(handed) |-> handed[k].texts])

\* The texts of the records a driver works on, in order.
RecordTexts ==
  IF audio_segments_groups # <<>> THEN TextsOf(Flatten(audio_segments_groups))
  ELSE SrcTexts(Len(subtitles))

IsPrefix(p, q) == Len(p) <= Len(q) /\ \A k \in 1..Len(p) : p[k] = q[k]

\* C10: every call a driver makes of the translator carries a contiguous
\* slice of at least one and at most batch_size records, and the slices
\* follow one another in the order of the records without gap or overlap.
C10_SlicesWithinBatchSize ==
  opc # "direct" =>
    /\ \A k \in 1..Len(handed) :
         Len(handed[k].texts) >= 1 /\ Len(handed[k].texts) <= batch_size
    /\ IsPrefix(HandedTexts, RecordTexts)
    /\ (opc \in {"written", "done"} /\ result \in {"output_file", "output_path"})
         => HandedTexts = RecordTexts

\* ------------------------------------------------------------- C11
\* batch_min: int = 3, the only minimum batch size the program configures.
DefaultBatchMin == 3

\* The minimum batch size in force: generate_subtitles' argument;
\* translate_srt_file takes none, which leaves the default.
ConfiguredBatchMin == IF mode = "none" THEN DefaultBatchMin ELSE batch_min

\* C11: under every driver, a slice with fewer texts than the configured
\* minimum batch size is translated text by text: the call it is handed to
\* sends no prompt that asks for the ===NEXT=== delimiter.
C11_SmallSlicePerItem ==
  (opc # "direct" /\ pc # "idle" /\ Len(texts) < ConfiguredBatchMin)
    => (delim_calls = 0 /\ pc # "batch")

\* ------------------------------------------------------------- C12
AudioModes == {"auto", "audio"}

\* The number of segments in the groups before group g.
RECURSIVE SegmentsBefore(_)
SegmentsBefore(g) ==
  IF g <= 1 THEN 0 ELSE SegmentsBefore(g - 1) + Len(audio_segments_groups[g - 1])

NonEmptyGroups == { g \in 1..Len(audio_segments_groups) : audio_segments_groups[g] # <<>> }

\* C12: in the audio modes the groups are translated one after another in
\* group order, an empty group gets no call and gives no record, every other
\* group gives one record per segment in the segments' order, and the output
\* is the groups' records one group after another, numbered 1..M, M the
\* number of transcribed segments.
C12_GroupsInOrder ==
  mode \in AudioModes =>
    /\ \A k \in 1..Len(handed) :
         /\ handed[k].start + 1 \in NonEmptyGroups
         /\ handed[k].texts = TextsOf(audio_segments_groups[handed[k].start + 1])
         /\ k > 1 => handed[k - 1].start < handed[k].start
    /\ \A g \in 1..Len(translated_segments_groups) :
         /\ Len(translated_segments_groups[g]) = Len(audio_segments_groups[g])
         /\ g \in NonEmptyGroups => \E k \in 1..Len(handed) : handed[k].start + 1 = g
    /\ result = "output_file" =>
         /\ Len(output) = SegmentsBefore(Len(audio_segments_groups) + 1)
         /\ Len(handed) = Cardinality(NonEmptyGroups)
         /\ \A k \in 1..Len(output) : output[k].index = k
         /\ \A g \in 1..Len(audio_segments_groups) :
              \A j \in 1..Len(audio_segments_groups[g]) :
                LET rec == output[SegmentsBefore(g) + j]
                    seg == audio_segments_groups[g][j]
                IN  /\ rec.timeline = << seconds_to_srt_time(seg.start_time), "-->",
                                         seconds_to_srt_time(seg.end_time) >>
                    /\ rec.text = translated_segments_groups[g][j].text

\* Two groups, of two segments and of one, written as three records.
C12_Witness ==
  /\ mode \in AudioModes /\ result = "output_file"
  /\ Len(audio_segments_groups) = 2
  /\ Len(audio_segments_groups[1]) = 2 /\ Len(audio_segments_groups[2]) = 1
  /\ Len(output) = 3 /\ Len(handed) = 2

\* ------------------------------------------------------------- C13
\* The records of the valid ones among the given blocks, in their order.
RECURSIVE ValidRecords(_)
ValidRecords(blocks) ==
  IF blocks = <<>> THEN <<>>
  ELSE (IF Head(blocks).valid
        THEN << [index |-> Head(blocks).index, timeline |-> Head(blocks).timeline,
                 text |-> Head(blocks).body] >>
        ELSE <<>>) \o ValidRecords(Tail(blocks))

\* C13: parse_srt gives one record for every valid block and none for an
\* invalid one (fewer than 3 lines, a first line that is no integer, a
\* second line without the marker), in the order of the blocks; an invalid
\* block leaves the records of the other blocks as they are, and a text
\* without a valid block gives the empty list.
C13_OneRecordPerValidBlock ==
  ppc \in {"parsed", "serialized", "reparsed"} => parsed = ValidRecords(srt_blocks)

\* A valid block, an invalid one and another valid one: two records.
C13_Witness ==
  /\ ppc = "parsed" /\ Len(srt_blocks) = 3
  /\ srt_blocks[1].valid /\ ~srt_blocks[2].valid /\ srt_blocks[3].valid
  /\ Len(parsed) = 2 /\ parsed[1].index # parsed[2].index

\* ------------------------------------------------------------- C14
\* The first line at or after line p that holds the index of the record
\* and is followed by the record's timeline; 0 when there is none.
RECURSIVE LineOfRecord(_, _, _)
LineOfRecord(lines, rec, p) ==
  IF p + 1 > Len(lines) THEN 0
  ELSE IF IsInt(lines[p]) /\ IntOf(lines[p]) = rec.index /\ lines[p + 1] = rec.timeline
       THEN p
       ELSE LineOfRecord(lines, rec, p + 1)

\* The records appear in the lines from line p on, one after another.
RECURSIVE AppearInOrder(_, _, _)
AppearInOrder(lines, records, p) ==
  IF records = <<>> THEN TRUE
  ELSE LET at == LineOfRecord(lines, Head(records), p)
       IN  at > 0 /\ AppearInOrder(lines, Tail(records), at + 2)

\* C14: every record of parse_srt(x) appears in generate_srt(parse_srt(x))
\* with its index value and its timeline unchanged, in the same order, and
\* parsing the generated text gives the same records again.
C14_RoundTrip ==
  /\ ppc \in {"serialized", "reparsed"} =>
       AppearInOrder(SplitLines(serialized), parsed, 1)
  /\ ppc = "reparsed" => reparsed = parsed

\* Two records, one written with a leading zero and blanks, come back from
\* a generated text that differs from the text parsed.
C14_Witness ==
  /\ ppc = "reparsed" /\ Len(parsed) = 2 /\ parsed[1].index = 3
  /\ serialized # srt_content /\ reparsed = parsed

\* ------------------------------------------------------------- C15
\* The text has a line break, that is, two lines or more.
SpansLines(text) == \E k \in 1..Len(text) : text[k] = "n"

\* C15: in bilingual mode a translated text of two or more lines is
\* returned unchanged, and formatting a formatted text again returns it
\* unchanged.
C15_BilingualIdempotent ==
  translation_type = "shuangyu" =>
    /\ (ppc \in {"formatted", "formatted_again"} /\ SpansLines(fmt_translated))
         => formatted = fmt_translated
    /\ ppc = "formatted_again" => formatted_again = formatted

\* A translated text of one line: the first formatting adds the original,
\* the second adds nothing.
C15_Witness ==
  /\ translation_type = "shuangyu" /\ ppc = "formatted_again"
  /\ ~SpansLines(fmt_translated) /\ fmt_original # <<>>
  /\ formatted # fmt_translated /\ formatted_again = formatted

\* ------------------------------------------------------------- C16
\* C16: in bilingual mode a translated text of one line comes back followed
\* by a line break and the original text, whatever _is_chinese says of the
\* original; in every other mode the translated text comes back verbatim.
C16_TranslationFirst ==
  ppc \in {"formatted", "formatted_again"} =>
    /\ (translation_type = "shuangyu" /\ ~SpansLines(fmt_translated))
         => formatted = fmt_translated \o <<"n">> \o fmt_original
    /\ translation_type # "shuangyu" => formatted = fmt_translated

\* A Chinese original under the one line of its translation.
C16_Witness ==
  /\ translation_type = "shuangyu" /\ ppc = "formatted"
  /\ is_chinese(fmt_original) /\ fmt_translated = <<"t">>
  /\ formatted = <<"t", "n">> \o fmt_original

\* ------------------------------------------------------------- C17
\* An input translate_srt_file must refuse.
BadSrtInput ==
  \/ translation_type \notin translation_rules_dict
  \/ ~file_exists
  \/ subtitles = <<>>

\* C17: with an unsupported translation type, a missing file or a file
\* without a record, translate_srt_file raises at once: no call of the
\* translator or of the adapter has been made and no output is written.
C17_InputErrorsRaised ==
  /\ (mode = "none" /\ opc \notin {"direct", "start"} /\ BadSrtInput) =>
       /\ opc = "raised" /\ error \in {"ValueError", "FileNotFoundError"}
       /\ handed = <<>> /\ pc = "idle"
       /\ delim_calls = 0 /\ plain_calls = 0
       /\ output = <<>> /\ result = "running"
  /\ (mode = "none" /\ opc = "raised") => BadSrtInput

\* A file that exists and holds no record, with a supported type.
C17_Witness ==
  /\ mode = "none" /\ opc = "raised" /\ error = "ValueError"
  /\ translation_type \in translation_rules_dict /\ file_exists
  /\ subtitles = <<>>

\* ------------------------------------------------------------- C18
\* C18: generate_subtitles, given a translation type that is not supported,
\* fails at once: no subtitle track has been extracted, no audio chunk
\* extracted or transcribed and no translator or adapter call made.
C18_UnsupportedTypeImmediate ==
  (mode \in GenModes /\ translation_type \notin translation_rules_dict) =>
    /\ ~temp_srt /\ subtitles = <<>>
    /\ ~chunk_files /\ audio_chunks = <<>> /\ audio_segments_groups = <<>>
    /\ handed = <<>> /\ delim_calls = 0 /\ plain_calls = 0
    /\ result # "output_file"

\* ------------------------------------------------------------- C19
\* C19: generate_subtitles returns None on every failure, and whatever else
\* it returns is the path of an output file that was written.
C19_PathOrNone ==
  (mode \in GenModes /\ opc = "done") =>
    \/ result = "None" /\ output = <<>>
    \/ result = "output_file" /\ output # <<>>

\* ------------------------------------------------------------- C20
\* The valid ones among the given blocks, in their order.
RECURSIVE ValidBlocks(_)
ValidBlocks(blocks) ==
  IF blocks = <<>> THEN <<>>
  ELSE (IF Head(blocks).valid THEN << Head(blocks) >> ELSE <<>>)
         \o ValidBlocks(Tail(blocks))

\* An input srt_to_ass must refuse.
BadAssInput ==
  \/ style_names = <<>>
  \/ \E k \in 1..Len(style_names) : style_names[k] = MissingStyle
  \/ ValidBlocks(ass_blocks) = <<>>

IsSuffix(p, q) ==
  Len(p) <= Len(q) /\ \A k \in 1..Len(p) : p[k] = q[Len(q) - Len(p) + k]

\* C20: with no style name, a style name the configuration lacks, or a file
\* without a valid subtitle, srt_to_ass raises ValueError and no file has
\* been written or overwritten; otherwise it returns one path per style
\* name, in the order of the names, and the file at each path holds one
\* Dialogue event per parsed subtitle, in the order of the subtitles.
C20_AssRejectsOrWritesAll ==
  /\ (ppc \in {"ass_loop", "ass_returned", "ass_raised"} /\ BadAssInput) =>
       /\ ppc = "ass_raised" /\ ass_error = "ValueError"
       /\ output_paths = <<>>
       /\ \A path \in OutputPathsOf : ass_files[path].kind \in {"absent", "old"}
  /\ ppc = "ass_raised" => BadAssInput
  /\ ppc = "ass_returned" =>
       /\ Len(output_paths) = Len(style_names)
       /\ \A k \in 1..Len(style_names) :
            /\ output_paths[k] = OutputPath(style_names[k])
            /\ ass_files[output_paths[k]].kind = "ass"
            /\ LET events == ass_files[output_paths[k]].events
                   blocks == ValidBlocks(ass_blocks)
               IN  /\ Len(events) = Len(blocks)
                   /\ \A j \in 1..Len(events) :
                        /\ events[j].start = blocks[j].start
                        /\ events[j].end = blocks[j].end
                        /\ IsSuffix(blocks[j].body, events[j].text)

\* Two styles and two valid subtitles around an invalid block: two files of
\* two events each, one of them written over an old file.
C20_Witness ==
  /\ ppc = "ass_returned" /\ Len(style_names) = 2 /\ style_names[1] # style_names[2]
  /\ Len(ass_blocks) = 3 /\ ~ass_blocks[2].valid
  /\ Len(ass_subtitles) = 2 /\ ass_subtitles[1] # ass_subtitles[2]
  /\ \A k \in 1..2 : Len(ass_files[output_paths[k]].events) = 2

\* ------------------------------------------------------------- C21
\* The inputs the tests of embed_subtitles reject: no video file, no entry, an
\* entry that is no dict, has no 'path' or names no file, an empty output
\* path, no ffmpeg.
ValidationFails ==
  \/ ~video_path.exists
  \/ subtitle_files = <<>>
  \/ \E i \in 1..Len(subtitle_files) :
       \/ subtitle_files[i].kind \in { "not_dict", "no_path" }
       \/ subtitle_files[i].kind = "path" /\ ~subtitle_files[i].exists
  \/ output_path = ""
  \/ ~ffmpeg_exists

\* C21: embed_subtitles never raises and returns a dict with the key
\* 'success'; success is true only if ffmpeg exited with code 0 and the
\* output file exists; an input that fails a validation test gives success
\* false without a run of ffmpeg; ffmpeg is run at most once.
C21_StructuredResult ==
  /\ embed_result.kind \in { "none", "dict" }
  /\ ppc = "embed_returned" => embed_result.kind = "dict"
  /\ embed_result.success =>
       /\ ffmpeg_exit.kind = "exit"
       /\ ffmpeg_exit.returncode = 0
       /\ ffmpeg_exit.created
  /\ (ppc = "embed_returned" /\ ValidationFails) =>
       ~embed_result.success /\ ffmpeg_runs = 0
  /\ ffmpeg_runs <= 1

\* ffmpeg has run and ended with a return code other than 0, and the call has
\* returned.
C21_Witness ==
  /\ ppc = "embed_returned"
  /\ ffmpeg_runs = 1
  /\ ffmpeg_exit.kind = "exit"
  /\ ffmpeg_exit.returncode # 0
  /\ ffmpeg_exit.created
  /\ ~embed_result.success

\* ------------------------------------------------------------- C22
\* The value a probing function returns for a failure.
FailureValue(fn) ==
  CASE fn = "get_video_info" -> [kind |-> "dict", error |-> TRUE, streams |-> <<>>]
    [] fn = "detect_embedded_subtitles" -> [kind |-> "list", error |-> FALSE, streams |-> <<>>]
    [] OTHER -> [kind |-> "None", error |-> FALSE, streams |-> <<>>]

\* ffprobe could not report on the file: no file, no binary, no end of the
\* run, an exit code other than 0, or an output that is empty or no JSON.
ProbeFailed ==
  \/ ~probe_file_exists
  \/ ~ffprobe_exists
  \/ ffprobe.kind = "hang"
  \/ ffprobe.kind = "exit" /\ ffprobe.returncode # 0
  \/ ffprobe.kind = "exit" /\ ffprobe.stdout.kind \in { "empty", "blank", "not_json" }

\* ffprobe reported streams, and none of them is a video stream.
NoVideoStream ==
  /\ ffprobe.kind = "exit"
  /\ ffprobe.stdout.kind = "json"
  /\ \A k \in 1..Len(ffprobe.stdout.streams) : ffprobe.stdout.streams[k] # "video"

C23_OriginalTextShipped ==
  [][ (opc = "loop" /\ pc = "returned" /\ i_batch' # i_batch) =>
        \A k \in 1..Len(item_log) :
          ~item_log[k].ok =>
            translated_subtitles'[Len(translated_subtitles) + k].text
              = batch_subtitles[k].text ]_vars

\* ------------------------------------------------------------- C24
\* C24: a batch response with more than N cleaned segments for N texts is
\* accepted: the call returns the first N cleaned segments in response
\* order, the others are dropped, and no per-item call is made.
C24_ExtraSegmentsCut ==
  (Supported /\ got_response /\ Len(translated_parts) > Len(texts)) =>
     /\ pc = "returned"
     /\ plain_calls = 0
     /\ item_log = <<>>
     /\ translated_parts = CleanedSegmentsOf(translated_text)
     /\ ret = SubSeq(CleanedSegmentsOf(translated_text), 1, Len(texts))

\* After a batch attempt that raised, a response with four cleaned segments
\* for two texts.
C24_Witness ==
  /\ pc = "returned" /\ Len(texts) = 2
  /\ batch_errors = 1
  /\ Len(CleanedSegmentsOf(translated_text)) = 4
  /\ Len(ret) = 2

\* ------------------------------------------------------------- C25
\* What the embedded mode returns once a subtitle stream was detected and no
\* exception was raised.
EmbeddedModeResults == { "output_file", "extract_failed_message", "parse_failed_message" }

\* C25: in auto mode with an embedded subtitle stream detected, the function
\* hands the work to the embedded mode and returns what that mode returns,
\* the path of the written file when extraction, parsing and translation
\* succeed; no audio chunk is extracted or transcribed.
C25_AutoPrefersEmbedded ==
  (mode = "auto" /\ embedded_subs) =>
     /\ audio_chunks = <<>> /\ audio_segments_groups = <<>> /\ ~chunk_files
     /\ (opc = "done" /\ Supported) => result \in EmbeddedModeResults
     /\ result = "output_file" => output # <<>>

\* ------------------------------------------------------------- C26
\* C26: a call of translate_texts_batch with N texts and max_retries = R
\* ends, whatever the adapter does; it makes at most R delimiter-based calls
\* and at most N * R per-item calls, and once the per-item fallback has
\* started no delimiter-based call follows.
C26_BoundedCalls ==
  /\ [](delim_calls <= max_retries /\ plain_calls <= Len(texts) * max_retries)
  /\ [][pc = "one_by_one" => delim_calls' = delim_calls]_vars
  /\ <>(pc \in { "returned", "raised" })

\* Three texts, two retries: both batch calls raised and every per-item call
\* raised, so that both bounds are met.
C26_Witness ==
  /\ pc = "returned" /\ Len(texts) = 3 /\ max_retries = 2
  /\ delim_calls = 2
  /\ plain_calls = 6

\* ------------------------------------------------------------- C27
HasText(span) == span.text # <<>>

\* The spans a chunk's answer stands for: per segment the times moved by the
\* start of the chunk in the source and the trimmed text, blank ones left out.
SpansOf(o, chunk_index) ==
  SelectSeq([ j \in 1..Len(o.segments) |->
                [start_time |-> chunk_index * 180000 + o.segments[j].start,
                 end_time |-> chunk_index * 180000 + o.segments[j].end,
                 text |-> TrimOf(o.segments[j].text)] ],
            HasText)

RECURSIVE SpansUpTo(_)
SpansUpTo(k) ==
  IF k = 0 THEN <<>>
  ELSE SpansUpTo(k - 1) \o SpansOf(transcriptions[k], chunk_indices[k])

\* C27: every span of the transcription carries the service's times moved
\* once by the start of its chunk in the source; the spans keep the service's
\* order, blank texts give no span, and a chunk whose transcription raised
\* gives an empty group while the other chunks keep theirs.
C27_SpansRelativeToSource ==
  /\ Len(segments_groups) = Len(transcriptions)
  /\ \A k \in 1..Len(segments_groups) :
       /\ ~transcriptions[k].ok => segments_groups[k] = <<>>
       /\ transcriptions[k].ok =>
            segments_groups[k] = SpansOf(transcriptions[k], chunk_indices[k])
  /\ ppc = "transcribe_done" =>
       /\ Len(segments_groups) = Len(chunk_indices)
       /\ Flatten(segments_groups) = SpansUpTo(Len(chunk_indices))

\* The first chunk's transcription raised; the second chunk, three minutes
\* into the source, gave a blank segment and a spoken one.
C27_Witness ==
  /\ ppc = "transcribe_done"
  /\ chunk_indices = <<0, 1>>
  /\ ~transcriptions[1].ok
  /\ transcriptions[2].ok /\ Len(transcriptions[2].segments) = 2
  /\ transcriptions[2].segments[1].text = <<"s">>
  /\ Len(Flatten(segments_groups)) = 1
  /\ Flatten(segments_groups)[1].start_time = 182540

\* ------------------------------------------------------------- C28
\* Extensions read without regard to case.
AssContainers == { ".mkv", ".MKV", ".avi", ".mov" }

Mp4Containers == { ".mp4", ".Mp4" }

AssSubtitles == { ".ass", ".ASS" }

\* C28: the codec handed to ffmpeg is 'ass' exactly when preserve_ass_styles
\* is set, the video is an .mkv, .avi or .mov file and some subtitle path
\* ends in .ass; otherwise it is 'mov_text' exactly when the video is an .mp4
\* file, and 'srt' in every other case; a successful result reports the
\* codec that was handed to ffmpeg.
C28_CodecByContainer ==
  /\ cmd # NoCmd =>
       LET keeps_ass == /\ preserve_ass_styles
                        /\ video_path.ext \in AssContainers
                        /\ \E i \in 1..Len(subtitle_files) :
                             subtitle_files[i].ext \in AssSubtitles
       IN  cmd.codec = IF keeps_ass THEN "ass"
                       ELSE IF video_path.ext \in Mp4Containers THEN "mov_text"
                       ELSE "srt"
  /\ embed_result.success =>
       /\ cmd # NoCmd
       /\ embed_result.subtitle_codec = cmd.codec

\* An upper-case .MKV video with an .srt and an .ASS subtitle file embedded
\* with the codec ass.
C28_Witness ==
  /\ embed_result.success
  /\ video_path.ext = ".MKV"
  /\ Len(subtitle_files) = 2
  /\ subtitle_files[1].ext = ".srt" /\ subtitle_files[2].ext = ".ASS"
  /\ embed_result.subtitle_codec = "ass"

\* ------------------------------------------------------------- C29
\* C29: when generate_subtitles has returned, on whatever path, neither the
\* temporary SRT file of the extracted track nor an extracted audio chunk
\* file is left.
C29_NoTempFileLeft ==
  opc = "done" => (~temp_srt /\ ~chunk_files)

====
